---- MODULE Spec2Model ----
(***************************************************************************)
(* FeatureLens: the monitoring pipeline (internal/pipeline) as a state     *)
(* machine.  Four goroutines (consumer, parser, calculator, alerter) are   *)
(* connected by three buffered channels; Pipeline.Run launches them,       *)
(* waits for the context or the first error and then for the WaitGroup.    *)
(* Time is an integer clock read by time.Now() and by the ticker.          *)
(***************************************************************************)
EXTENDS Integers, Sequences, FiniteSets, TLC

(* ------------------------------ bounds -------------------------------- *)
\* capacity of each of the three channels in the model (the program builds
\* them with channelBufferSize, src/unnamed/part_003:35)
QueueCap == 1
\* payloads the Source hands out in one run
MaxFetch == 2
\* cfg.Pipeline.WindowSize, in clock units
WindowSize == 2
\* the clock reading at which the longest observed run ends
MaxTime == 4
\* the longest text value handed to GetFieldSnippet, in characters
MaxStrLen == 3

(* -------------------------- program constants -------------------------- *)
\* fault variant of ErrChanCap: make(chan error), an unbuffered channel
ErrChanUnbuffered == Len(<<>>)

\* make(chan error, 4)
ErrChanCap == 4
\* wg.Add(4)
NumTasks == 4

(* ------------------------------- state --------------------------------- *)
VARIABLES
    now,             \* the wall clock (time.Now())
    cancelled,       \* ctx.Done() is closed
    featuresToRun,   \* Calculator.featuresToRun (cfg.Features)
    alertFeatures,   \* the features NewAlerter was given (Alerter.features)
    payloadSet,      \* the payloads the Source may return in this run
    horizon,         \* the clock reading at which the observed run ends
    fetched,         \* payloads FetchMessage has returned so far
    readerClosed,    \* times c.reader.Close() ran
    cpc, cmsg, cerr, \* consumer goroutine: position, m.Value, Run's result
    rawMessages, rawClosed,
    ppc, pmsg, pexit, plog, \* parser goroutine: position, parsedMsg, exit cause, outcomes
    parsedMessages, parsedClosed,
    kpc, kerr,       \* calculator goroutine: position, Run's result
    kpend, kafter,   \* results of the running flush still to send; what follows it
    windowStates,    \* Calculator.windowStates
    mu,              \* Calculator.mu is held
    ingested,        \* every record processMessage took, with its window end
    tickC, nextTick, \* ticker.C (capacity 1) and the ticker's next firing time
    aggResults, aggClosed,
    apc, aerr,       \* alerter goroutine: position, Run's result
    evaluated,       \* results the alerter has processed, in order
    alertLog,        \* what the alerter logged: violations and summaries
    violationCounter, \* featureThresholdViolations, by (feature, check, comparison)
    gauges,          \* the per-feature gauges the alerter last set
    pipelineErr,     \* the error channel of Pipeline.Run
    wg,              \* the WaitGroup counter
    rpc, firstErr, retVal, \* Pipeline.Run: position, firstErr, returned error
    exitStatus,      \* the status main exited with (NotExited while it runs)
    closes,          \* how often close() ran on each of the three channels
    snipIn, snipOut, \* a call of GetFieldSnippet: its arguments, its result
    emitLog,         \* every AggregationResult a flush built, in order
    flushedUpTo      \* the largest cutoff any flush has used so far (-1: none)

vars ==
    << now, cancelled, featuresToRun, alertFeatures, payloadSet, horizon, fetched, readerClosed,
       cpc, cmsg, cerr, rawMessages, rawClosed,
       ppc, pmsg, pexit, plog, parsedMessages, parsedClosed,
       kpc, kerr, kpend, kafter, windowStates, mu, ingested, tickC, nextTick,
       aggResults, aggClosed, apc, aerr, evaluated, alertLog, violationCounter, gauges,
       pipelineErr, wg, rpc, firstErr, retVal, exitStatus, closes, snipIn, snipOut,
       emitLog, flushedUpTo >>

srcVars == << fetched, readerClosed >>
consVars == << cpc, cmsg, cerr >>
parsVars == << ppc, pmsg, pexit, plog >>
calcVars == << kpc, kerr, kpend, kafter, windowStates, mu, ingested, emitLog, flushedUpTo >>
tickVars == << tickC, nextTick >>
alrtVars == << apc, aerr, evaluated, alertLog, violationCounter, gauges >>
runVars == << rpc, firstErr, retVal, exitStatus >>
cfgVars == << featuresToRun, alertFeatures, payloadSet, horizon >>
snipVars == << snipIn, snipOut >>

(* ------------------------------ errors --------------------------------- *)
\* An error value: the stage sentinel that wraps it (fmt.Errorf("%w: %w", ...))
\* and the underlying cause.
NilErr == [stage |-> "none", cause |-> "nil"]
CtxCanceled == [stage |-> "none", cause |-> "canceled"]
ErrKafkaFetchFailed == [stage |-> "none", cause |-> "fetchfail"]
ErrConsumerRunFailed == "consumer"
ErrCalculatorRunFailed == "calculator"
ErrAlerterRunFailed == "alerter"

Wrap(stage, err) == [stage |-> stage, cause |-> err.cause]
\* errors.Is(err, context.Canceled): looks through the wrapping
IsCanceled(err) == err.cause = "canceled"

(* ------------------------------ float64 -------------------------------- *)
\* The counters sum and sumSq are float64.  A finite value is an exact
\* number of the model; math.MaxFloat64 is scaled down to the model's
\* number range, and every result above it is +Inf (IEEE 754 overflow).
\* The numbers of the model are not negative, so -Inf does not arise in a
\* sum.
MaxFloat64 == 10000
PosInf == MaxFloat64 + 1
\* a number whose square is above MaxFloat64 (as 1e200 is for float64)
Big == MaxFloat64 \div 10

FAdd(x, y) == IF x = PosInf \/ y = PosInf \/ x + y > MaxFloat64 THEN PosInf ELSE x + y
FSquare(x) == IF x = PosInf \/ x * x > MaxFloat64 THEN PosInf ELSE x * x

(* ---------------------------- record model ----------------------------- *)
NumV(n) == [t |-> "num", v |-> n]
NullV == [t |-> "null", v |-> 0]
StrV == [t |-> "str", v |-> 0]
EmptyMsg == [k \in {} |-> NullV]

\* json.Unmarshal(data, &msg) on the payloads of the model: ok is FALSE when
\* the bytes are not a JSON object (malformed, or another JSON type); the
\* JSON literal null decodes without error into a nil map.
ParseDynamicJSON(data) ==
    CASE data = "{a:1}" -> [ok |-> TRUE, msg |-> [k \in {"a"} |-> NumV(1)]]
      [] data = "{a:3}" -> [ok |-> TRUE, msg |-> [k \in {"a"} |-> NumV(3)]]
      [] data = "{a:1e200}" -> [ok |-> TRUE, msg |-> [k \in {"a"} |-> NumV(Big)]]
      [] data = "{a:null}" -> [ok |-> TRUE, msg |-> [k \in {"a"} |-> NullV]]
      [] data = "{a:'x'}" -> [ok |-> TRUE, msg |-> [k \in {"a"} |-> StrV]]
      [] data = "{}" -> [ok |-> TRUE, msg |-> EmptyMsg]
      [] data = "{b:3}" -> [ok |-> TRUE, msg |-> [k \in {"b"} |-> NumV(3)]]
      [] data = "{a:1,b:3}" ->
            [ok |-> TRUE, msg |-> [k \in {"a", "b"} |-> IF k = "a" THEN NumV(1) ELSE NumV(3)]]
      [] data = "null" -> [ok |-> TRUE, msg |-> EmptyMsg]
      [] data = "{a:" -> [ok |-> FALSE, msg |-> EmptyMsg]
      [] data = "[1]" -> [ok |-> FALSE, msg |-> EmptyMsg]

AllPayloads ==
    {"{a:1}", "{a:3}", "{a:1e200}", "{a:null}", "{a:'x'}", "{}", "{b:3}", "{a:1,b:3}", "null",
     "{a:", "[1]"}

\* fault variant of HasNonNull: an explicit null counts as a value
HasNonNullIfPresent(dm, key) == key \in DOMAIN dm

\* fault variant of HasNonNull: a value that is not a number is taken for
\* null
HasNonNullNumbersOnly(dm, key) == key \in DOMAIN dm /\ dm[key].t = "num"

HasNonNull(dm, key) == key \in DOMAIN dm /\ dm[key].t # "null"

GetFloat64(dm, key) ==
    IF key \notin DOMAIN dm \/ dm[key].t = "null"
    THEN [ok |-> FALSE, v |-> 0]
    ELSE IF dm[key].t = "num"
         THEN [ok |-> TRUE, v |-> dm[key].v]
         ELSE [ok |-> FALSE, v |-> 0]

(* ------------------------------ snippets ------------------------------- *)
\* A Go string is a sequence of bytes.  A text value is a sequence of
\* characters; its UTF-8 encoding takes one byte for an ASCII character and
\* two for U+00E9 (0xC3 0xA9).
TextV(chars) == [t |-> "str", v |-> chars]
Chars == {"x", "e-acute"}

UTF8(ch) == IF ch = "e-acute" THEN << "0xC3", "0xA9" >> ELSE << ch >>

RECURSIVE Bytes(_)
Bytes(chars) == IF chars = <<>> THEN <<>> ELSE UTF8(Head(chars)) \o Bytes(Tail(chars))

RECURSIVE Digits(_)
Digits(n) == IF n < 10 THEN << ToString(n) >> ELSE Digits(n \div 10) \o << ToString(n % 10) >>

\* fmt.Sprintf("%v", value) for the values a decoded record holds
Sprintf(value) ==
    CASE value.t = "null" -> << "<", "n", "i", "l", ">" >>
      [] value.t = "num" -> Digits(value.v)
      [] value.t = "str" -> Bytes(value.v)

Missing == << "<", "m", "i", "s", "s", "i", "n", "g", ">" >>
Ellipsis == << ".", ".", "." >>

\* len(strValue) and strValue[:maxLength] count bytes
GetFieldSnippet(dm, fieldName, maxLength) ==
    IF fieldName \notin DOMAIN dm
    THEN Missing
    ELSE LET strValue == Sprintf(dm[fieldName])
         IN  IF maxLength <= 0
             THEN Ellipsis
             ELSE IF Len(strValue) > maxLength
                  THEN SubSeq(strValue, 1, maxLength) \o Ellipsis
                  ELSE strValue

(* --------------------------- channel helpers --------------------------- *)
\* a buffered channel accepts a send without blocking while it has room
CanSend(q) == Len(q) < QueueCap
\* fault variant of RecvClosed: a closed channel reads as ended while its
\* buffer still holds items
RecvClosedIgnoresBuffer(q, closed) == closed

\* "v, ok := <-ch" yields ok = false only once the channel is closed AND
\* its buffer is empty
RecvClosed(q, closed) == closed /\ q = <<>>

(* ------------------- aggregation engine: pure part --------------------- *)
Put(f, k, v) == [x \in DOMAIN f \cup {k} |-> IF x = k THEN v ELSE f[x]]

\* &FeatureStats{}
ZeroStats == [count |-> 0, nullCount |-> 0, sum |-> 0, sumSq |-> 0]

newWindowInfo(start, end) ==
    [windowStart |-> start, windowEnd |-> end, features |-> [n \in {} |-> ZeroStats]]

\* fault variant of WindowEndOf: the window end is rounded to the nearest
\* multiple of the window length, so a record of the second half of a
\* window goes to the window after it
WindowEndOfRounded(t) ==
    LET r == t + (WindowSize \div 2)
    IN  (r - (r % WindowSize)) + WindowSize

\* now.Truncate(windowDuration).Add(windowDuration)
WindowEndOf(t) == (t - (t % WindowSize)) + WindowSize

\* the map after getOrCreateFeatureStats(windowEnd, featureName)
getOrCreateFeatureStats(ws, windowEnd, featureName) ==
    LET ws1 == IF windowEnd \in DOMAIN ws
               THEN ws
               ELSE Put(ws, windowEnd, newWindowInfo(windowEnd - WindowSize, windowEnd))
        wi == ws1[windowEnd]
    IN  IF featureName \in DOMAIN wi.features
        THEN ws1
        ELSE [ws1 EXCEPT ![windowEnd].features = Put(wi.features, featureName, ZeroStats)]

\* fault variant of processNumericalValue: sumSq accumulates the value, not
\* its square
processNumericalValueNoSquare(stats, msg, featureName) ==
    LET f == GetFloat64(msg, featureName)
    IN  IF ~f.ok
        THEN stats
        ELSE [stats EXCEPT !.sum = @ + f.v, !.sumSq = @ + f.v]

\* stats.sum += floatVal; stats.sumSq += floatVal * floatVal
processNumericalValue(stats, msg, featureName) ==
    LET f == GetFloat64(msg, featureName)
    IN  IF ~f.ok
        THEN stats
        ELSE [stats EXCEPT !.sum = FAdd(@, f.v), !.sumSq = FAdd(@, FSquare(f.v))]

\* fault variant of processNonNullValue: every metric type is processed as
\* numerical
processNonNullValueAnyType(stats, msg, featureCfg) ==
    processNumericalValue(stats, msg, featureCfg.name)

\* switch featureCfg.MetricType: "numerical", or the default that only logs
processNonNullValue(stats, msg, featureCfg) ==
    IF featureCfg.metricType = "numerical"
    THEN processNumericalValue(stats, msg, featureCfg.name)
    ELSE stats

updateFeatureStats(ws, msg, featureCfg, windowEnd) ==
    LET ws1 == getOrCreateFeatureStats(ws, windowEnd, featureCfg.name)
        st0 == ws1[windowEnd].features[featureCfg.name]
        st1 == [st0 EXCEPT !.count = @ + 1]
        st2 == IF ~HasNonNull(msg, featureCfg.name)
               THEN [st1 EXCEPT !.nullCount = @ + 1]
               ELSE processNonNullValue(st1, msg, featureCfg)
    IN  [ws1 EXCEPT ![windowEnd].features[featureCfg.name] = st2]

\* fault variant of updateAllFeatures: a feature the record does not carry
\* is passed over
RECURSIVE updateAllFeaturesOfRecord(_, _, _, _)
updateAllFeaturesOfRecord(ws, msg, cfgs, windowEnd) ==
    IF cfgs = <<>>
    THEN ws
    ELSE updateAllFeaturesOfRecord(
             IF Head(cfgs).name \in DOMAIN msg
             THEN updateFeatureStats(ws, msg, Head(cfgs), windowEnd)
             ELSE ws,
             msg, Tail(cfgs), windowEnd)

RECURSIVE updateAllFeatures(_, _, _, _)
updateAllFeatures(ws, msg, cfgs, windowEnd) ==
    IF cfgs = <<>>
    THEN ws
    ELSE updateAllFeatures(updateFeatureStats(ws, msg, Head(cfgs), windowEnd),
                           msg, Tail(cfgs), windowEnd)

\* processMessage at clock reading t: one window end for all features
processMessage(ws, msg, t) ==
    updateAllFeatures(ws, msg, featuresToRun, WindowEndOf(t))

\* A float result: the NaN sentinel, the exact quotient num/den (den > 0),
\* or +Inf (den = 0).
NaN == [nan |-> TRUE, num |-> 0, den |-> 1]
Quot(n, d) == [nan |-> FALSE, num |-> n, den |-> d]
Inf == [nan |-> FALSE, num |-> 1, den |-> 0]

\* mean = sum/validCount, variance = sumSq/validCount - mean*mean, a
\* negative variance set to 0.  mean*mean and sumSq/validCount overflow to
\* +Inf; +Inf - +Inf is NaN, which is not < 0 and is returned as it is;
\* a finite value minus +Inf is -Inf, which is set to 0.
calculateMeanVariance(stats) ==
    LET validCount == stats.count - stats.nullCount
        vnum == stats.sumSq * validCount - stats.sum * stats.sum
        meanSqInf == stats.sum = PosInf
                     \/ stats.sum * stats.sum > MaxFloat64 * validCount * validCount
    IN  IF validCount <= 0
        THEN [mean |-> NaN, variance |-> NaN]
        ELSE [mean |-> IF stats.sum = PosInf THEN Inf ELSE Quot(stats.sum, validCount),
              variance |->
                  IF stats.sumSq = PosInf /\ meanSqInf
                  THEN NaN
                  ELSE IF stats.sumSq = PosInf
                  THEN Inf
                  ELSE IF meanSqInf \/ vnum < 0
                  THEN Quot(0, validCount * validCount)
                  ELSE Quot(vnum, validCount * validCount)]

\* the AggregationResult processAndSendWindowResults builds for one feature
ResultOf(wi, featureName) ==
    LET st == wi.features[featureName]
        mv == calculateMeanVariance(st)
    IN  [FeatureName |-> featureName, WindowStart |-> wi.windowStart,
         WindowEnd |-> wi.windowEnd, Count |-> st.count,
         NullCount |-> st.nullCount, Mean |-> mv.mean, Variance |-> mv.variance]

\* fault variant of RemoveCompleted: the map is emptied, the windows that
\* are not complete included
RemoveCompletedClearsMap(ws, cutoffTime) == [e \in {} |-> ws[e]]

\* fault variant of RemoveCompleted: the delete is missing
RemoveCompletedKeepsAll(ws, cutoffTime) == ws

\* fault variant of CompletedKeys: windowEnd.Before(cutoffTime) in place of
\* !windowEnd.After(cutoffTime)
CompletedKeysStrictlyBefore(ws, cutoffTime) == {e \in DOMAIN ws : e < cutoffTime}

\* collectAndRemoveCompletedWindows: the keys moved to windowsToProcess ...
CompletedKeys(ws, cutoffTime) == {e \in DOMAIN ws : ~(e > cutoffTime)}
\* ... and the map left behind after the deletes
RemoveCompleted(ws, cutoffTime) ==
    [e \in DOMAIN ws \ CompletedKeys(ws, cutoffTime) |-> ws[e]]

Perms(S) ==
    {f \in [1..Cardinality(S) -> S] : \A i, j \in 1..Cardinality(S) : f[i] = f[j] => i = j}

\* the features of one window that pass the "count == 0 -> continue" filter
SentFeatures(wi) == {n \in DOMAIN wi.features : wi.features[n].count # 0}

\* Go ranges over a map in an unspecified order: every order of the
\* features of one window ...
WindowOrders(wi) ==
    {[i \in DOMAIN p |-> ResultOf(wi, p[i])] : p \in Perms(SentFeatures(wi))}

RECURSIVE ConcatOrders(_, _)
ConcatOrders(ws, wseq) ==
    IF wseq = <<>>
    THEN {<<>>}
    ELSE {a \o b : a \in WindowOrders(ws[Head(wseq)]), b \in ConcatOrders(ws, Tail(wseq))}

\* ... and every order of the completed windows
FlushOrders(ws, cutoffTime) ==
    UNION {ConcatOrders(ws, p) : p \in Perms(CompletedKeys(ws, cutoffTime))}

Max(a, b) == IF a >= b THEN a ELSE b

(* ------------------- aggregation engine: the lock ---------------------- *)
\* The operations a call performs, in program order: "Lock" and "Unlock" of
\* c.mu, map operations ("lookup", "insert", "range", "delete"), writes to
\* the logger ("log"), updates of a FeatureStats ("update").

\* getOrCreateFeatureStats: Lock, the deferred Unlock last; a window that is
\* not in the map is inserted and logged (logger.Debug) before the feature
\* lookup
getOrCreateFeatureStatsOps(ws, windowEnd, featureName) ==
    << "Lock", "lookup" >>
    \o (IF windowEnd \in DOMAIN ws THEN <<>> ELSE << "insert", "log" >>)
    \o << "lookup" >>
    \o (IF windowEnd \in DOMAIN ws /\ featureName \in DOMAIN ws[windowEnd].features
        THEN <<>> ELSE << "insert" >>)
    \o << "Unlock" >>

\* updateFeatureStats: the counters are updated after the lock is released;
\* a non-null value that was not processed is logged
updateFeatureStatsOps(ws, msg, featureCfg, windowEnd) ==
    getOrCreateFeatureStatsOps(ws, windowEnd, featureCfg.name)
    \o << "update" >>
    \o (IF /\ HasNonNull(msg, featureCfg.name)
           /\ ~(featureCfg.metricType = "numerical" /\ GetFloat64(msg, featureCfg.name).ok)
        THEN << "log" >> ELSE <<>>)

RECURSIVE processMessageOps(_, _, _, _)
processMessageOps(ws, msg, cfgs, windowEnd) ==
    IF cfgs = <<>>
    THEN <<>>
    ELSE updateFeatureStatsOps(ws, msg, Head(cfgs), windowEnd)
         \o processMessageOps(updateFeatureStats(ws, msg, Head(cfgs), windowEnd),
                              msg, Tail(cfgs), windowEnd)

\* the loop of collectAndRemoveCompletedWindows over the keys of the map
RECURSIVE PartitionOps(_, _)
PartitionOps(keys, cutoffTime) ==
    IF keys = {}
    THEN <<>>
    ELSE LET e == CHOOSE x \in keys : TRUE
         IN  << "range" >>
             \o (IF ~(e > cutoffTime) THEN << "insert", "delete" >> ELSE <<>>)
             \o PartitionOps(keys \ {e}, cutoffTime)

collectAndRemoveCompletedWindowsOps(ws, cutoffTime) ==
    << "Lock" >> \o PartitionOps(DOMAIN ws, cutoffTime) \o << "Unlock" >>

\* whether c.mu is held after the operations, and the operations that ran
\* while it was held
RECURSIVE LockHeldAfter(_, _)
LockHeldAfter(ops, held) ==
    IF ops = <<>>
    THEN held
    ELSE LockHeldAfter(Tail(ops),
                       IF Head(ops) = "Lock" THEN TRUE
                       ELSE IF Head(ops) = "Unlock" THEN FALSE ELSE held)

RECURSIVE UnderLock(_, _)
UnderLock(ops, held) ==
    IF ops = <<>>
    THEN {}
    ELSE IF Head(ops) = "Lock" THEN UnderLock(Tail(ops), TRUE)
    ELSE IF Head(ops) = "Unlock" THEN UnderLock(Tail(ops), FALSE)
    ELSE (IF held THEN {Head(ops)} ELSE {}) \cup UnderLock(Tail(ops), held)

(* --------------------------- alerter: pure part ------------------------ *)
\* A *float64 of config.Thresholds: nil, or the configured number num/den
Unset == [set |-> FALSE, num |-> 0, den |-> 1]
Bound(n, d) == [set |-> TRUE, num |-> n, den |-> d]
NoThresholds ==
    [NullRate |-> Unset, MeanMin |-> Unset, MeanMax |-> Unset,
     StdDevMin |-> Unset, StdDevMax |-> Unset]

\* a < b and a > b on numbers num/den (den > 0)
Less(a, b) == a.num * b.den < b.num * a.den
Greater(a, b) == a.num * b.den > b.num * a.den

\* math.Sqrt(x) for x >= 0, kept as the root of x; r < t and r > t on it
Sqrt(x) == [nan |-> FALSE, rnum |-> x.num, rden |-> x.den]
RootLess(r, t) == t.num > 0 /\ r.rnum * t.den * t.den < t.num * t.num * r.rden
RootGreater(r, t) == t.num < 0 \/ r.rnum * t.den * t.den > t.num * t.num * r.rden

\* the Warnw line of a violation; the counter of part_001 is keyed the same
Violation(featureName, windowEnd, checkType, comparison) ==
    [kind |-> "violation", feature |-> featureName, windowEnd |-> windowEnd,
     check_type |-> checkType, comparison |-> comparison]

\* fault variant of checkNullRate: a rate equal to the bound is reported too
checkNullRateAtOrAbove(featureName, windowEnd, actualRate, threshold) ==
    IF ~threshold.set \/ actualRate.nan
    THEN <<>>
    ELSE IF ~Less(actualRate, threshold)
         THEN << Violation(featureName, windowEnd, "null_rate", ">") >>
         ELSE <<>>

checkNullRate(featureName, windowEnd, actualRate, threshold) ==
    IF ~threshold.set \/ actualRate.nan
    THEN <<>>
    ELSE IF Greater(actualRate, threshold)
         THEN << Violation(featureName, windowEnd, "null_rate", ">") >>
         ELSE <<>>

\* fault variant of checkMean: the not-computable sentinel is compared like
\* the number 0 (the value the gauges show for it)
checkMeanReadsNaNAsZero(featureName, windowEnd, actualMean, minThreshold, maxThreshold) ==
    (IF minThreshold.set /\ Less(actualMean, minThreshold)
     THEN << Violation(featureName, windowEnd, "mean", "<") >> ELSE <<>>)
    \o
    (IF maxThreshold.set /\ Greater(actualMean, maxThreshold)
     THEN << Violation(featureName, windowEnd, "mean", ">") >> ELSE <<>>)

checkMean(featureName, windowEnd, actualMean, minThreshold, maxThreshold) ==
    IF actualMean.nan
    THEN <<>>
    ELSE (IF minThreshold.set /\ Less(actualMean, minThreshold)
          THEN << Violation(featureName, windowEnd, "mean", "<") >> ELSE <<>>)
         \o
         (IF maxThreshold.set /\ Greater(actualMean, maxThreshold)
          THEN << Violation(featureName, windowEnd, "mean", ">") >> ELSE <<>>)

\* fault variant of checkStdDev: the max check is the else-branch of the min
\* check
checkStdDevStopsAtFirst(featureName, windowEnd, actualStdDev, minThreshold, maxThreshold) ==
    IF actualStdDev.nan
    THEN <<>>
    ELSE IF minThreshold.set /\ RootLess(actualStdDev, minThreshold)
         THEN << Violation(featureName, windowEnd, "stddev", "<") >>
         ELSE IF maxThreshold.set /\ RootGreater(actualStdDev, maxThreshold)
              THEN << Violation(featureName, windowEnd, "stddev", ">") >>
              ELSE <<>>

checkStdDev(featureName, windowEnd, actualStdDev, minThreshold, maxThreshold) ==
    IF actualStdDev.nan
    THEN <<>>
    ELSE (IF minThreshold.set /\ RootLess(actualStdDev, minThreshold)
          THEN << Violation(featureName, windowEnd, "stddev", "<") >> ELSE <<>>)
         \o
         (IF maxThreshold.set /\ RootGreater(actualStdDev, maxThreshold)
          THEN << Violation(featureName, windowEnd, "stddev", ">") >> ELSE <<>>)

\* fault variant of logStats: every field is appended, computable or not
logStatsAllFields(result, nullRate, stdDev) ==
    [kind |-> "stats", feature |-> result.FeatureName,
     windowEnd |-> result.WindowEnd, count |-> result.Count,
     fields |-> {"null_rate", "mean", "stddev"}]

\* the "Feature stats processed" line: the fields it carries
logStats(result, nullRate, stdDev) ==
    [kind |-> "stats", feature |-> result.FeatureName,
     windowEnd |-> result.WindowEnd, count |-> result.Count,
     fields |-> (IF nullRate.nan THEN {} ELSE {"null_rate"})
                \cup (IF result.Mean.nan THEN {} ELSE {"mean"})
                \cup (IF stdDev.nan THEN {} ELSE {"stddev"})]

\* fault variant of FeatureIndex: a name that is not configured falls back
\* to the configured features
FeatureIndexOrAny(features, featureName) ==
    IF {i \in DOMAIN features : features[i].name = featureName} = {}
    THEN DOMAIN features
    ELSE {i \in DOMAIN features : features[i].name = featureName}

\* a.features[featureName]: NewAlerter fills the map from the slice, a later
\* entry of the same name replacing an earlier one
FeatureIndex(features, featureName) ==
    {i \in DOMAIN features : features[i].name = featureName}
LastOf(S) == CHOOSE i \in S : \A j \in S : j <= i

\* processResult (checkThresholds in alerter.go): what it logs, whether
\* the feature was configured, and the gauge values it sets
processResult(features, result) ==
    IF FeatureIndex(features, result.FeatureName) = {}
    THEN [known |-> FALSE,
          log |-> << [kind |-> "unconfigured", feature |-> result.FeatureName,
                      windowEnd |-> result.WindowEnd] >>,
          gauge |-> 0]
    ELSE
    LET thresholds ==
            features[LastOf(FeatureIndex(features, result.FeatureName))].thresholds
        nullRateVal == IF result.Count > 0
                       THEN Quot(result.NullCount, result.Count) ELSE NaN
        stdDevVal == IF ~result.Variance.nan /\ result.Variance.num >= 0
                     THEN Sqrt(result.Variance)
                     ELSE [nan |-> TRUE, rnum |-> 0, rden |-> 1]
    IN  [known |-> TRUE,
         log |-> checkNullRate(result.FeatureName, result.WindowEnd, nullRateVal,
                               thresholds.NullRate)
                 \o checkMean(result.FeatureName, result.WindowEnd, result.Mean,
                              thresholds.MeanMin, thresholds.MeanMax)
                 \o checkStdDev(result.FeatureName, result.WindowEnd, stdDevVal,
                                thresholds.StdDevMin, thresholds.StdDevMax)
                 \o << logStats(result, nullRateVal, stdDevVal) >>,
         gauge |-> [count |-> result.Count, nullCount |-> result.NullCount,
                    nullRate |-> IF nullRateVal.nan THEN Quot(0, 1) ELSE nullRateVal,
                    mean |-> IF result.Mean.nan THEN Quot(0, 1) ELSE result.Mean,
                    stdDev |-> IF stdDevVal.nan THEN Sqrt(Quot(0, 1)) ELSE stdDevVal]]

\* featureThresholdViolations.WithLabelValues(...).Inc() for every violation
\* of a log
RECURSIVE IncAll(_, _)
IncAll(counter, log) ==
    IF log = <<>>
    THEN counter
    ELSE LET e == Head(log)
             key == << e.feature, e.check_type, e.comparison >>
         IN  IF e.kind # "violation"
             THEN IncAll(counter, Tail(log))
             ELSE IncAll(Put(counter, key,
                             IF key \in DOMAIN counter THEN counter[key] + 1 ELSE 1),
                         Tail(log))

(* ------------------------------- Init ---------------------------------- *)
\* main has not exited; GetFieldSnippet has not been called
NotExited == [code |-> -1, level |-> "none", err |-> [stage |-> "none", cause |-> "nil"]]
NoCall == [called |-> FALSE, dm |-> EmptyMsg, fieldName |-> "", maxLength |-> 0]

\* the state after pipeline.New: channels empty and open, no goroutine yet
InitPipeline ==
    /\ now \in 0..(WindowSize - 1)
    /\ fetched = 0
    /\ readerClosed = 0
    /\ cpc = "idle" /\ cmsg = "" /\ cerr = NilErr
    /\ rawMessages = <<>> /\ rawClosed = FALSE
    /\ ppc = "idle" /\ pmsg = EmptyMsg /\ pexit = "none" /\ plog = <<>>
    /\ parsedMessages = <<>> /\ parsedClosed = FALSE
    /\ kpc = "idle" /\ kerr = NilErr /\ kpend = <<>> /\ kafter = "loop"
    /\ windowStates = [e \in {} |-> newWindowInfo(0, 0)]
    /\ mu = FALSE
    /\ ingested = <<>>
    /\ tickC = <<>> /\ nextTick = 0
    /\ aggResults = <<>> /\ aggClosed = FALSE
    /\ apc = "idle" /\ aerr = NilErr /\ evaluated = <<>>
    /\ alertLog = <<>>
    /\ violationCounter = [k \in {} |-> 0]
    /\ gauges = [n \in {} |-> 0]
    /\ pipelineErr = <<>>
    /\ wg = 0
    /\ rpc = "new" /\ firstErr = NilErr /\ retVal = NilErr
    /\ exitStatus = NotExited
    /\ closes = [raw |-> 0, parsed |-> 0, agg |-> 0]
    /\ emitLog = <<>>
    /\ flushedUpTo = -1

\* main calls Run with a context that is not cancelled
InitCommon ==
    /\ InitPipeline
    /\ cancelled = FALSE
    /\ snipIn = NoCall /\ snipOut = <<>>

Init ==
    /\ InitCommon
    /\ featuresToRun = <<[name |-> "a", metricType |-> "numerical",
                          thresholds |-> NoThresholds]>>
    /\ alertFeatures = featuresToRun
    /\ payloadSet = {"{a:1}", "{a:"}
    /\ horizon = WindowSize

(* ------------------------- environment actions ------------------------- *)
\* the signal handler calls cancel()
Cancel ==
    /\ ~cancelled
    /\ rpc # "returned"
    /\ cancelled' = TRUE
    /\ UNCHANGED << now, cfgVars, snipVars, closes, srcVars, consVars, rawMessages,
                    rawClosed, parsVars,
                    parsedMessages, parsedClosed, calcVars, tickVars, aggResults,
                    aggClosed, alrtVars, pipelineErr, wg, runVars >>

\* the clock advances; the ticker sends the firing instant on ticker.C and
\* drops the tick when the previous one has not been taken
Tick ==
    /\ now < horizon
    /\ kpc \in {"run", "flush"}
    /\ now' = now + 1
    /\ IF now + 1 = nextTick
       THEN /\ tickC' = IF tickC = <<>> THEN <<now + 1>> ELSE tickC
            /\ nextTick' = nextTick + WindowSize
       ELSE UNCHANGED tickVars
    /\ UNCHANGED << cancelled, cfgVars, snipVars, closes, srcVars, consVars, rawMessages, rawClosed,
                    parsVars, parsedMessages, parsedClosed, calcVars, aggResults,
                    aggClosed, alrtVars, pipelineErr, wg, runVars >>

(* ---------------------------- Pipeline.Run ----------------------------- *)
\* fault variant of RunStart: with the context already cancelled Run starts
\* no goroutine and goes on to wait
RunStartUnlessCancelled ==
    /\ rpc = "new"
    /\ wg' = (IF cancelled THEN wg ELSE NumTasks)
    /\ cpc' = (IF cancelled THEN cpc ELSE "fetch")
    /\ ppc' = (IF cancelled THEN ppc ELSE "recv")
    /\ kpc' = (IF cancelled THEN kpc ELSE "run")
    /\ apc' = (IF cancelled THEN apc ELSE "run")
    /\ nextTick' = now + WindowSize
    /\ rpc' = "select"
    /\ UNCHANGED << now, cancelled, cfgVars, snipVars, closes, srcVars, cmsg, cerr,
                    rawMessages, rawClosed,
                    pmsg, pexit, plog, parsedMessages, parsedClosed, kerr, kpend, kafter, mu,
                    windowStates, emitLog, ingested, flushedUpTo, tickC, aggResults, aggClosed,
                    aerr, evaluated, alertLog, violationCounter,
                    gauges, pipelineErr, firstErr, retVal, exitStatus >>

\* wg.Add(4) and the four go statements; the calculator creates its ticker
RunStart ==
    /\ rpc = "new"
    /\ wg' = NumTasks
    /\ cpc' = "fetch" /\ ppc' = "recv" /\ kpc' = "run" /\ apc' = "run"
    /\ nextTick' = now + WindowSize
    /\ rpc' = "select"
    /\ UNCHANGED << now, cancelled, cfgVars, snipVars, closes, srcVars, cmsg, cerr,
                    rawMessages, rawClosed,
                    pmsg, pexit, plog, parsedMessages, parsedClosed, kerr, kpend, kafter, mu,
                    windowStates, emitLog, ingested, flushedUpTo, tickC, aggResults, aggClosed,
                    aerr, evaluated, alertLog, violationCounter,
                    gauges, pipelineErr, firstErr, retVal, exitStatus >>

\* fault variant of RunSelectCancel: on cancellation Run returns without
\* waiting for the goroutines
RunSelectCancelReturns ==
    /\ rpc = "select"
    /\ cancelled
    /\ firstErr' = CtxCanceled
    /\ rpc' = "returned"
    /\ UNCHANGED << now, cancelled, cfgVars, snipVars, closes, srcVars, consVars,
                    rawMessages, rawClosed,
                    parsVars, parsedMessages, parsedClosed, calcVars, tickVars,
                    aggResults, aggClosed, alrtVars, pipelineErr, wg, retVal, exitStatus >>

\* case <-ctx.Done(): firstErr = ctx.Err()
RunSelectCancel ==
    /\ rpc = "select"
    /\ cancelled
    /\ firstErr' = CtxCanceled
    /\ rpc' = "wait"
    /\ UNCHANGED << now, cancelled, cfgVars, snipVars, closes, srcVars, consVars,
                    rawMessages, rawClosed,
                    parsVars, parsedMessages, parsedClosed, calcVars, tickVars,
                    aggResults, aggClosed, alrtVars, pipelineErr, wg, retVal, exitStatus >>

\* case err := <-pipelineErr: firstErr = err
RunSelectErr ==
    /\ rpc = "select"
    /\ pipelineErr # <<>>
    /\ firstErr' = Head(pipelineErr)
    /\ pipelineErr' = Tail(pipelineErr)
    /\ rpc' = "wait"
    /\ UNCHANGED << now, cancelled, cfgVars, snipVars, closes, srcVars, consVars,
                    rawMessages, rawClosed,
                    parsVars, parsedMessages, parsedClosed, calcVars, tickVars,
                    aggResults, aggClosed, alrtVars, wg, retVal, exitStatus >>

\* fault variant of WaitReturns: Run does not wait for the WaitGroup
WaitReturnsAtOnce(counter) == TRUE

\* wg.Wait() returns once the counter is zero
WaitReturns(counter) == counter = 0

\* fault variant of RunResult: the trigger is never surfaced
RunResultAlwaysNil(err) == NilErr

\* the value Run returns for a given firstErr
RunResult(err) == IF err # NilErr /\ ~IsCanceled(err) THEN err ELSE NilErr

RunReturn ==
    /\ rpc = "wait"
    /\ WaitReturns(wg)
    /\ retVal' = RunResult(firstErr)
    /\ rpc' = "returned"
    /\ UNCHANGED << now, cancelled, cfgVars, snipVars, closes, srcVars, consVars,
                    rawMessages, rawClosed,
                    parsVars, parsedMessages, parsedClosed, calcVars, tickVars,
                    aggResults, aggClosed, alrtVars, pipelineErr, wg, firstErr, exitStatus >>

(* -------------------------------- main --------------------------------- *)
\* fault variant of ExitCode: main returns after the final log lines
\* without calling os.Exit
ExitCodeOfReturn(runErr) == 0

\* if runErr != nil && !errors.Is(runErr, context.Canceled) { os.Exit(1) };
\* os.Exit(0)
ExitCode(runErr) == IF runErr # NilErr /\ ~IsCanceled(runErr) THEN 1 ELSE 0

\* the switch on runErr: the level of the final log line and the error it
\* carries (zap.Skip() unless the error is unexpected)
finalLogLevel(runErr) ==
    IF runErr = NilErr \/ IsCanceled(runErr) THEN "info" ELSE "error"
finalErrorField(runErr) ==
    IF runErr = NilErr \/ IsCanceled(runErr) THEN NilErr ELSE runErr

\* runErr := pipe.Run(ctx) has returned: main logs the outcome and exits
MainExit ==
    /\ rpc = "returned"
    /\ exitStatus = NotExited
    /\ exitStatus' = [code |-> ExitCode(retVal), level |-> finalLogLevel(retVal),
                      err |-> finalErrorField(retVal)]
    /\ UNCHANGED << now, cancelled, cfgVars, snipVars, closes, srcVars, consVars,
                    rawMessages, rawClosed, parsVars, parsedMessages, parsedClosed,
                    calcVars, tickVars, aggResults, aggClosed, alrtVars, pipelineErr, wg,
                    rpc, firstErr, retVal >>

(* --------------------- consumer goroutine (runConsumer) ---------------- *)
\* what runConsumer puts on the error channel for the error Consumer.Run
\* returned: a non-nil, non-cancellation error wrapped with the stage
ReportConsumer(errCh, err) ==
    IF err # NilErr /\ ~IsCanceled(err)
    THEN Append(errCh, Wrap(ErrConsumerRunFailed, err))
    ELSE errCh

\* fault variant of ConsumerReturn: the deferred close(p.rawMessages) is missing
ConsumerReturnLeavesOpen(err) ==
    /\ Len(ReportConsumer(pipelineErr, err)) <= ErrChanCap
    /\ readerClosed' = readerClosed + 1
    /\ cerr' = err
    /\ cmsg' = ""
    /\ pipelineErr' = ReportConsumer(pipelineErr, err)
    /\ rawClosed' = rawClosed
    /\ closes' = closes
    /\ cpc' = "closed"

\* fault variant of ConsumerReturn: the reader is closed on the error path
\* only, not by a defer
ConsumerReturnClosesOnErrorOnly(err) ==
    /\ Len(ReportConsumer(pipelineErr, err)) <= ErrChanCap
    /\ readerClosed' = IF IsCanceled(err) THEN readerClosed ELSE readerClosed + 1
    /\ cerr' = err
    /\ cmsg' = ""
    /\ pipelineErr' = ReportConsumer(pipelineErr, err)
    /\ rawClosed' = TRUE
    /\ closes' = [closes EXCEPT !.raw = @ + 1]
    /\ cpc' = "closed"

\* Consumer.Run returns err: its deferred reader.Close() runs, runConsumer
\* reports the error and its deferred close(p.rawMessages) runs.  The error
\* channel never blocks the send: it has room for every fallible stage.
ConsumerReturn(err) ==
    /\ Len(ReportConsumer(pipelineErr, err)) <= ErrChanCap
    /\ readerClosed' = readerClosed + 1
    /\ cerr' = err
    /\ cmsg' = ""
    /\ pipelineErr' = ReportConsumer(pipelineErr, err)
    /\ rawClosed' = TRUE
    /\ closes' = [closes EXCEPT !.raw = @ + 1]
    /\ cpc' = "closed"

\* FetchMessage returns a message
ConsumerFetchMsg ==
    /\ cpc = "fetch"
    /\ fetched < MaxFetch
    /\ \E d \in payloadSet : cmsg' = d
    /\ fetched' = fetched + 1
    /\ cpc' = "send"
    /\ UNCHANGED << now, cancelled, cfgVars, snipVars, closes, readerClosed, cerr,
                    rawMessages, rawClosed,
                    parsVars, parsedMessages, parsedClosed, calcVars, tickVars,
                    aggResults, aggClosed, alrtVars, pipelineErr, wg, runVars >>

\* FetchMessage returns an error that is not the context's
ConsumerFetchFail ==
    /\ cpc = "fetch"
    /\ ConsumerReturn(ErrKafkaFetchFailed)
    /\ UNCHANGED << now, cancelled, cfgVars, snipVars, fetched, rawMessages,
                    parsVars, parsedMessages, parsedClosed, calcVars, tickVars,
                    aggResults, aggClosed, alrtVars, wg, runVars >>

\* fault variant of ConsumerFetchCanceled: the read does not watch the context
ConsumerFetchNeverCanceled == FALSE /\ UNCHANGED vars

\* FetchMessage returns context.Canceled
ConsumerFetchCanceled ==
    /\ cpc = "fetch"
    /\ cancelled
    /\ ConsumerReturn(CtxCanceled)
    /\ UNCHANGED << now, cancelled, cfgVars, snipVars, fetched, rawMessages,
                    parsVars, parsedMessages, parsedClosed, calcVars, tickVars,
                    aggResults, aggClosed, alrtVars, wg, runVars >>

\* fault variant of ConsumerSend: a non-blocking send that discards the
\* payload when the raw channel is full
ConsumerSendDropsWhenFull ==
    /\ cpc = "send"
    /\ rawMessages' = IF CanSend(rawMessages) THEN Append(rawMessages, cmsg)
                                              ELSE rawMessages
    /\ cmsg' = ""
    /\ cpc' = "fetch"
    /\ UNCHANGED << now, cancelled, cfgVars, snipVars, closes, srcVars, cerr, rawClosed,
                    parsVars, parsedMessages, parsedClosed, calcVars, tickVars,
                    aggResults, aggClosed, alrtVars, pipelineErr, wg, runVars >>

\* case c.output <- m.Value
ConsumerSend ==
    /\ cpc = "send"
    /\ CanSend(rawMessages)
    /\ rawMessages' = Append(rawMessages, cmsg)
    /\ cmsg' = ""
    /\ cpc' = "fetch"
    /\ UNCHANGED << now, cancelled, cfgVars, snipVars, closes, srcVars, cerr, rawClosed,
                    parsVars, parsedMessages, parsedClosed, calcVars, tickVars,
                    aggResults, aggClosed, alrtVars, pipelineErr, wg, runVars >>

\* case <-ctx.Done() of the send
ConsumerSendCanceled ==
    /\ cpc = "send"
    /\ cancelled
    /\ ConsumerReturn(CtxCanceled)
    /\ UNCHANGED << now, cancelled, cfgVars, snipVars, fetched, rawMessages,
                    parsVars, parsedMessages, parsedClosed, calcVars, tickVars,
                    aggResults, aggClosed, alrtVars, wg, runVars >>

\* the deferred wg.Done() of runConsumer
ConsumerDone ==
    /\ cpc = "closed"
    /\ cpc' = "done"
    /\ wg' = wg - 1
    /\ UNCHANGED << now, cancelled, cfgVars, snipVars, closes, srcVars, cmsg, cerr,
                    rawMessages, rawClosed,
                    parsVars, parsedMessages, parsedClosed, calcVars, tickVars,
                    aggResults, aggClosed, alrtVars, pipelineErr, runVars >>

(* ----------------------- parser goroutine (runParser) ------------------ *)
\* the parser returns: its deferred close(p.parsedMessages) runs
ParserReturn(cause) ==
    /\ pexit' = cause
    /\ pmsg' = EmptyMsg
    /\ parsedClosed' = TRUE
    /\ closes' = [closes EXCEPT !.parsed = @ + 1]
    /\ ppc' = "closed"

\* fault variant of ParserHandle: a decode failure ends the parser
ParserHandleStopsOnError(data) ==
    LET r == ParseDynamicJSON(data)
    IN  IF ~r.ok
        THEN /\ plog' = Append(plog, "skip")
             /\ pexit' = "error"
             /\ parsedClosed' = TRUE
             /\ ppc' = "closed"
             /\ UNCHANGED pmsg
        ELSE /\ pmsg' = r.msg
             /\ ppc' = "send"
             /\ UNCHANGED << plog, pexit, parsedClosed >>

\* what the parser does with a payload it pulled: a decode failure is
\* logged and the loop continues, a record goes on to the send
ParserHandle(data) ==
    LET r == ParseDynamicJSON(data)
    IN  IF ~r.ok
        THEN /\ plog' = Append(plog, "skip")
             /\ UNCHANGED << ppc, pmsg, pexit, parsedClosed >>
        ELSE /\ pmsg' = r.msg
             /\ ppc' = "send"
             /\ UNCHANGED << plog, pexit, parsedClosed >>

\* case rawMsg, ok := <-p.rawMessages with ok = true
ParserRecv ==
    /\ ppc = "recv"
    /\ rawMessages # <<>>
    /\ rawMessages' = Tail(rawMessages)
    /\ ParserHandle(Head(rawMessages))
    /\ UNCHANGED << now, cancelled, cfgVars, snipVars, closes, srcVars, consVars, rawClosed,
                    parsedMessages, calcVars, tickVars,
                    aggResults, aggClosed, alrtVars, pipelineErr, wg, runVars >>

\* the same case with ok = false
ParserRecvClosed ==
    /\ ppc = "recv"
    /\ RecvClosed(rawMessages, rawClosed)
    /\ ParserReturn("eos")
    /\ UNCHANGED << now, cancelled, cfgVars, snipVars, srcVars, consVars, rawMessages, rawClosed,
                    plog, parsedMessages, calcVars, tickVars,
                    aggResults, aggClosed, alrtVars, pipelineErr, wg, runVars >>

\* case <-ctx.Done() of the outer select
ParserRecvCanceled ==
    /\ ppc = "recv"
    /\ cancelled
    /\ ParserReturn("cancel")
    /\ UNCHANGED << now, cancelled, cfgVars, snipVars, srcVars, consVars, rawMessages, rawClosed,
                    plog, parsedMessages, calcVars, tickVars,
                    aggResults, aggClosed, alrtVars, pipelineErr, wg, runVars >>

\* case p.parsedMessages <- parsedMsg
ParserSend ==
    /\ ppc = "send"
    /\ CanSend(parsedMessages)
    /\ parsedMessages' = Append(parsedMessages, pmsg)
    /\ pmsg' = EmptyMsg
    /\ plog' = Append(plog, "fwd")
    /\ ppc' = "recv"
    /\ UNCHANGED << now, cancelled, cfgVars, snipVars, closes, srcVars, consVars,
                    rawMessages, rawClosed,
                    pexit, parsedClosed, calcVars, tickVars,
                    aggResults, aggClosed, alrtVars, pipelineErr, wg, runVars >>

\* fault variant of ParserSendCanceled: the send does not watch ctx.Done()
ParserSendNeverCanceled == FALSE /\ UNCHANGED vars

\* case <-ctx.Done() of the inner select
ParserSendCanceled ==
    /\ ppc = "send"
    /\ cancelled
    /\ ParserReturn("cancel")
    /\ UNCHANGED << now, cancelled, cfgVars, snipVars, srcVars, consVars, rawMessages, rawClosed,
                    plog, parsedMessages, calcVars, tickVars,
                    aggResults, aggClosed, alrtVars, pipelineErr, wg, runVars >>

\* the deferred wg.Done() of runParser
ParserDone ==
    /\ ppc = "closed"
    /\ ppc' = "done"
    /\ wg' = wg - 1
    /\ UNCHANGED << now, cancelled, cfgVars, snipVars, closes, srcVars, consVars,
                    rawMessages, rawClosed,
                    pmsg, pexit, plog, parsedMessages, parsedClosed, calcVars, tickVars,
                    aggResults, aggClosed, alrtVars, pipelineErr, runVars >>

(* ------------------ calculator goroutine (runCalculator) --------------- *)
\* flushWindows(cutoffTime): collectAndRemoveCompletedWindows takes the
\* completed windows out of the map in one step; their results are then
\* built and sent one by one (CalcSend), in the order the map ranges yield
StartFlush(cutoffTime, after) ==
    /\ ~mu
    /\ mu' = LockHeldAfter(collectAndRemoveCompletedWindowsOps(windowStates, cutoffTime), mu)
    /\ \E order \in FlushOrders(windowStates, cutoffTime) : kpend' = order
    /\ windowStates' = RemoveCompleted(windowStates, cutoffTime)
    /\ flushedUpTo' = Max(flushedUpTo, cutoffTime)
    /\ kafter' = after
    /\ kpc' = "flush"

\* fault variant of CalcRecv: records are ingested by a goroutine of their
\* own, also while a flush is under way
CalcRecvBesideFlush ==
    /\ kpc \in {"run", "flush"}
    /\ parsedMessages # <<>>
    /\ parsedMessages' = Tail(parsedMessages)
    /\ ~mu
    /\ windowStates' = processMessage(windowStates, Head(parsedMessages), now)
    /\ mu' = LockHeldAfter(processMessageOps(windowStates, Head(parsedMessages),
                                             featuresToRun, WindowEndOf(now)), mu)
    /\ ingested' = Append(ingested, [windowEnd |-> WindowEndOf(now),
                                     msg |-> Head(parsedMessages)])
    /\ UNCHANGED << now, cancelled, cfgVars, snipVars, closes, srcVars, consVars,
                    rawMessages, rawClosed,
                    parsVars, parsedClosed, kpc, kerr, kpend, kafter, emitLog,
                    flushedUpTo, tickVars, aggResults, aggClosed, alrtVars,
                    pipelineErr, wg, runVars >>

\* case msg, ok := <-c.input with ok = true: processMessage(msg)
CalcRecv ==
    /\ kpc = "run"
    /\ parsedMessages # <<>>
    /\ parsedMessages' = Tail(parsedMessages)
    /\ ~mu
    /\ windowStates' = processMessage(windowStates, Head(parsedMessages), now)
    /\ mu' = LockHeldAfter(processMessageOps(windowStates, Head(parsedMessages),
                                             featuresToRun, WindowEndOf(now)), mu)
    /\ ingested' = Append(ingested, [windowEnd |-> WindowEndOf(now),
                                     msg |-> Head(parsedMessages)])
    /\ UNCHANGED << now, cancelled, cfgVars, snipVars, closes, srcVars, consVars,
                    rawMessages, rawClosed,
                    parsVars, parsedClosed, kpc, kerr, kpend, kafter, emitLog,
                    flushedUpTo, tickVars, aggResults, aggClosed, alrtVars,
                    pipelineErr, wg, runVars >>

\* the same case with ok = false: c.flushWindows(time.Now()); return nil
CalcRecvClosed ==
    /\ kpc = "run"
    /\ RecvClosed(parsedMessages, parsedClosed)
    /\ StartFlush(now, "ret")
    /\ kerr' = NilErr
    /\ UNCHANGED << now, cancelled, cfgVars, snipVars, closes, srcVars, consVars,
                    rawMessages, rawClosed,
                    parsVars, parsedMessages, parsedClosed, emitLog, ingested, tickVars,
                    aggResults, aggClosed, alrtVars, pipelineErr, wg, runVars >>

\* case tickTime := <-ticker.C: c.flushWindows(tickTime)
CalcTick ==
    /\ kpc = "run"
    /\ tickC # <<>>
    /\ StartFlush(Head(tickC), "loop")
    /\ tickC' = <<>>
    /\ UNCHANGED << now, cancelled, cfgVars, snipVars, closes, srcVars, consVars,
                    rawMessages, rawClosed,
                    parsVars, parsedMessages, parsedClosed, kerr, emitLog, ingested, nextTick,
                    aggResults, aggClosed, alrtVars, pipelineErr, wg, runVars >>

\* case <-ctx.Done(): c.flushWindows(time.Now()); return ctx.Err()
CalcCanceled ==
    /\ kpc = "run"
    /\ cancelled
    /\ StartFlush(now, "ret")
    /\ kerr' = CtxCanceled
    /\ UNCHANGED << now, cancelled, cfgVars, snipVars, closes, srcVars, consVars,
                    rawMessages, rawClosed,
                    parsVars, parsedMessages, parsedClosed, emitLog, ingested, tickVars,
                    aggResults, aggClosed, alrtVars, pipelineErr, wg, runVars >>

\* fault variant of CalcSend: a plain blocking send, c.output <- result
CalcSendBlocks ==
    /\ kpc = "flush"
    /\ kpend # <<>>
    /\ CanSend(aggResults)
    /\ kpend' = Tail(kpend)
    /\ aggResults' = Append(aggResults, Head(kpend))
    /\ emitLog' = Append(emitLog, [res |-> Head(kpend), sent |-> TRUE])
    /\ UNCHANGED << now, cancelled, cfgVars, snipVars, closes, srcVars, consVars,
                    rawMessages, rawClosed,
                    parsVars, parsedMessages, parsedClosed, kpc, kerr, kafter, mu,
                    windowStates, ingested, flushedUpTo, tickVars, aggClosed, alrtVars,
                    pipelineErr, wg, runVars >>

\* select { case c.output <- result: default: (dropped) } for the next
\* result of the running flush
CalcSend ==
    /\ kpc = "flush"
    /\ kpend # <<>>
    /\ kpend' = Tail(kpend)
    /\ IF CanSend(aggResults)
       THEN /\ aggResults' = Append(aggResults, Head(kpend))
            /\ emitLog' = Append(emitLog, [res |-> Head(kpend), sent |-> TRUE])
       ELSE /\ aggResults' = aggResults
            /\ emitLog' = Append(emitLog, [res |-> Head(kpend), sent |-> FALSE])
    /\ UNCHANGED << now, cancelled, cfgVars, snipVars, closes, srcVars, consVars,
                    rawMessages, rawClosed,
                    parsVars, parsedMessages, parsedClosed, kpc, kerr, kafter, mu,
                    windowStates, ingested, flushedUpTo, tickVars, aggClosed, alrtVars,
                    pipelineErr, wg, runVars >>

\* a timer-driven flush is over: back to the select of Calculator.Run
CalcFlushDone ==
    /\ kpc = "flush"
    /\ kpend = <<>>
    /\ kafter = "loop"
    /\ kpc' = "run"
    /\ UNCHANGED << now, cancelled, cfgVars, snipVars, closes, srcVars, consVars,
                    rawMessages, rawClosed,
                    parsVars, parsedMessages, parsedClosed, kerr, kpend, kafter, mu,
                    windowStates, emitLog, ingested, flushedUpTo, tickVars, aggResults, aggClosed,
                    alrtVars, pipelineErr, wg, runVars >>

\* fault variant of ReportCalculator: the errors.Is(err, context.Canceled)
\* test is missing
ReportCalculatorAnyError(errCh, err) ==
    IF err # NilErr
    THEN Append(errCh, Wrap(ErrCalculatorRunFailed, err))
    ELSE errCh

\* what runCalculator puts on the error channel
ReportCalculator(errCh, err) ==
    IF err # NilErr /\ ~IsCanceled(err)
    THEN Append(errCh, Wrap(ErrCalculatorRunFailed, err))
    ELSE errCh

\* fault variant of CalcReturn: the results channel is closed as soon as
\* the final flush has started
CalcReturnClosesEarly ==
    /\ kpc = "flush"
    /\ kafter = "ret"
    /\ Len(ReportCalculator(pipelineErr, kerr)) <= ErrChanCap
    /\ pipelineErr' = ReportCalculator(pipelineErr, kerr)
    /\ tickC' = <<>>
    /\ nextTick' = 0
    /\ aggClosed' = TRUE
    /\ closes' = [closes EXCEPT !.agg = @ + 1]
    /\ kpc' = "closed"
    /\ UNCHANGED << now, cancelled, cfgVars, snipVars, srcVars, consVars, rawMessages, rawClosed,
                    parsVars, parsedMessages, parsedClosed, kerr, kpend, kafter, mu,
                    windowStates, emitLog, ingested, flushedUpTo, aggResults,
                    alrtVars, wg, runVars >>

\* the final flush is over: Calculator.Run returns (its deferred
\* ticker.Stop() runs), runCalculator reports the error and its deferred
\* close(p.aggResults) runs
CalcReturn ==
    /\ kpc = "flush"
    /\ kpend = <<>>
    /\ kafter = "ret"
    /\ Len(ReportCalculator(pipelineErr, kerr)) <= ErrChanCap
    /\ pipelineErr' = ReportCalculator(pipelineErr, kerr)
    /\ tickC' = <<>>
    /\ nextTick' = 0
    /\ aggClosed' = TRUE
    /\ closes' = [closes EXCEPT !.agg = @ + 1]
    /\ kpc' = "closed"
    /\ UNCHANGED << now, cancelled, cfgVars, snipVars, srcVars, consVars, rawMessages, rawClosed,
                    parsVars, parsedMessages, parsedClosed, kerr, kpend, kafter, mu,
                    windowStates, emitLog, ingested, flushedUpTo, aggResults,
                    alrtVars, wg, runVars >>

\* the deferred wg.Done() of runCalculator
CalcDone ==
    /\ kpc = "closed"
    /\ kpc' = "done"
    /\ wg' = wg - 1
    /\ UNCHANGED << now, cancelled, cfgVars, snipVars, closes, srcVars, consVars,
                    rawMessages, rawClosed,
                    parsVars, parsedMessages, parsedClosed, kerr, kpend, kafter, mu,
                    windowStates, emitLog, ingested, flushedUpTo, tickVars, aggResults, aggClosed,
                    alrtVars, pipelineErr, runVars >>

(* -------------------- alerter goroutine (runAlerter) ------------------- *)
\* fault variant of AlerterRecv: the result is read but left on the queue
AlerterRecvKeepsResult ==
    /\ apc = "run"
    /\ aggResults # <<>>
    /\ aggResults' = aggResults
    /\ evaluated' = Append(evaluated, Head(aggResults))
    /\ LET out == processResult(alertFeatures, Head(aggResults))
       IN  /\ alertLog' = alertLog \o out.log
           /\ violationCounter' = IncAll(violationCounter, out.log)
           /\ gauges' = IF out.known
                        THEN Put(gauges, Head(aggResults).FeatureName, out.gauge)
                        ELSE gauges
    /\ UNCHANGED << now, cancelled, cfgVars, snipVars, closes, srcVars, consVars,
                    rawMessages, rawClosed,
                    parsVars, parsedMessages, parsedClosed, calcVars, tickVars,
                    aggClosed, apc, aerr, pipelineErr, wg, runVars >>

\* case result, ok := <-a.input with ok = true
AlerterRecv ==
    /\ apc = "run"
    /\ aggResults # <<>>
    /\ aggResults' = Tail(aggResults)
    /\ evaluated' = Append(evaluated, Head(aggResults))
    /\ LET out == processResult(alertFeatures, Head(aggResults))
       IN  /\ alertLog' = alertLog \o out.log
           /\ violationCounter' = IncAll(violationCounter, out.log)
           /\ gauges' = IF out.known
                        THEN Put(gauges, Head(aggResults).FeatureName, out.gauge)
                        ELSE gauges
    /\ UNCHANGED << now, cancelled, cfgVars, snipVars, closes, srcVars, consVars,
                    rawMessages, rawClosed,
                    parsVars, parsedMessages, parsedClosed, calcVars, tickVars,
                    aggClosed, apc, aerr, pipelineErr, wg, runVars >>

\* the same case with ok = false: return nil
AlerterRecvClosed ==
    /\ apc = "run"
    /\ RecvClosed(aggResults, aggClosed)
    /\ aerr' = NilErr
    /\ apc' = "ret"
    /\ UNCHANGED << now, cancelled, cfgVars, snipVars, closes, srcVars, consVars,
                    rawMessages, rawClosed,
                    parsVars, parsedMessages, parsedClosed, calcVars, tickVars,
                    aggResults, aggClosed, evaluated, alertLog, violationCounter,
                    gauges, pipelineErr, wg, runVars >>

\* case <-ctx.Done(): return ctx.Err()
AlerterCanceled ==
    /\ apc = "run"
    /\ cancelled
    /\ aerr' = CtxCanceled
    /\ apc' = "ret"
    /\ UNCHANGED << now, cancelled, cfgVars, snipVars, closes, srcVars, consVars,
                    rawMessages, rawClosed,
                    parsVars, parsedMessages, parsedClosed, calcVars, tickVars,
                    aggResults, aggClosed, evaluated, alertLog, violationCounter,
                    gauges, pipelineErr, wg, runVars >>

\* what runAlerter puts on the error channel
ReportAlerter(errCh, err) ==
    IF err # NilErr /\ ~IsCanceled(err)
    THEN Append(errCh, Wrap(ErrAlerterRunFailed, err))
    ELSE errCh

\* runAlerter reports the error of Alerter.Run; its deferred wg.Done() runs
AlerterDone ==
    /\ apc = "ret"
    /\ Len(ReportAlerter(pipelineErr, aerr)) <= ErrChanCap
    /\ pipelineErr' = ReportAlerter(pipelineErr, aerr)
    /\ apc' = "done"
    /\ wg' = wg - 1
    /\ UNCHANGED << now, cancelled, cfgVars, snipVars, closes, srcVars, consVars,
                    rawMessages, rawClosed,
                    parsVars, parsedMessages, parsedClosed, calcVars, tickVars,
                    aggResults, aggClosed, aerr, evaluated, alertLog, violationCounter,
                    gauges, runVars >>

(* ------------- consumer and parser as one upstream of the aggregator --- *)
\* The steps of the consumer and parser goroutines taken back to back, for
\* the runs in which the aggregation engine is observed over several
\* windows: both goroutines wait at their receive with the raw channel empty.

\* FetchMessage returns a payload, the consumer sends it, the parser pulls
\* and decodes it and forwards the record (or skips the payload)
UpstreamFeed ==
    /\ cpc = "fetch" /\ ppc = "recv"
    /\ rawMessages = <<>> /\ CanSend(rawMessages)
    /\ fetched < MaxFetch
    /\ fetched' = fetched + 1
    /\ \E d \in payloadSet :
          LET r == ParseDynamicJSON(d)
          IN  IF ~r.ok
              THEN /\ plog' = Append(plog, "skip")
                   /\ UNCHANGED parsedMessages
              ELSE /\ CanSend(parsedMessages)
                   /\ parsedMessages' = Append(parsedMessages, r.msg)
                   /\ plog' = Append(plog, "fwd")
    /\ UNCHANGED << now, cancelled, cfgVars, snipVars, closes, readerClosed, consVars, rawMessages,
                    rawClosed, ppc, pmsg, pexit, parsedClosed, calcVars, tickVars,
                    aggResults, aggClosed, alrtVars, pipelineErr, wg, runVars >>

\* the consumer returns err and the parser, seeing the raw channel closed
\* (or the context cancelled), returns too; both call wg.Done()
UpstreamReturn(err, cause) ==
    /\ cpc = "fetch" /\ ppc = "recv"
    /\ rawMessages = <<>>
    /\ readerClosed' = readerClosed + 1
    /\ cerr' = err
    /\ pipelineErr' = ReportConsumer(pipelineErr, err)
    /\ rawClosed' = TRUE
    /\ cpc' = "done"
    /\ pexit' = cause
    /\ parsedClosed' = TRUE
    /\ closes' = [closes EXCEPT !.raw = @ + 1, !.parsed = @ + 1]
    /\ ppc' = "done"
    /\ wg' = wg - 2
    /\ UNCHANGED << now, cancelled, cfgVars, snipVars, fetched, cmsg, rawMessages, pmsg, plog,
                    parsedMessages, calcVars, tickVars, aggResults, aggClosed,
                    alrtVars, runVars >>

\* FetchMessage fails; the parser reads the closed raw channel
UpstreamFail == UpstreamReturn(ErrKafkaFetchFailed, "eos")

\* both goroutines take their ctx.Done() case
UpstreamCanceled == cancelled /\ UpstreamReturn(CtxCanceled, "cancel")

(* --------------------------- specifications ---------------------------- *)
Next ==
    \/ Cancel
    \/ Tick
    \/ RunStart
    \/ RunSelectCancel
    \/ RunSelectErr
    \/ RunReturn
    \/ MainExit
    \/ ConsumerFetchMsg
    \/ ConsumerFetchFail
    \/ ConsumerFetchCanceled
    \/ ConsumerSend
    \/ ConsumerSendCanceled
    \/ ConsumerDone
    \/ ParserRecv
    \/ ParserRecvClosed
    \/ ParserRecvCanceled
    \/ ParserSend
    \/ ParserSendCanceled
    \/ ParserDone
    \/ CalcRecv
    \/ CalcRecvClosed
    \/ CalcTick
    \/ CalcCanceled
    \/ CalcSend
    \/ CalcFlushDone
    \/ CalcReturn
    \/ CalcDone
    \/ AlerterRecv
    \/ AlerterRecvClosed
    \/ AlerterCanceled
    \/ AlerterDone

Spec == Init /\ [][Next]_vars

\* Every goroutine that can take a step eventually takes one, and a select
\* whose ctx.Done() case is ready eventually takes it (Go picks among the
\* ready cases at random); nothing is assumed of the Source (a read may
\* block for ever), of the signal handler or of the clock.
Fairness ==
    /\ WF_vars(RunStart \/ RunSelectCancel \/ RunSelectErr \/ RunReturn)
    /\ WF_vars(ConsumerFetchCanceled \/ ConsumerSendCanceled)
    /\ WF_vars(ConsumerSend \/ ConsumerDone)
    /\ WF_vars(ParserRecvCanceled \/ ParserSendCanceled)
    /\ WF_vars(ParserRecv \/ ParserRecvClosed \/ ParserSend \/ ParserDone)
    /\ SF_vars(CalcCanceled)
    /\ WF_vars(CalcTick)
    /\ WF_vars(CalcRecv \/ CalcRecvClosed \/ CalcSend \/ CalcFlushDone
                \/ CalcReturn \/ CalcDone)
    /\ WF_vars(AlerterCanceled)
    /\ WF_vars(AlerterRecv \/ AlerterRecvClosed \/ AlerterDone)

FairSpec == Spec /\ Fairness

\* The runs in which the signal arrives only after Consumer.Run has
\* returned its fatal error and runConsumer has put it on the error
\* channel.  The consumer has returned by then, so its cancellation cases
\* are never taken.
CancelAfterFatal ==
    /\ cerr = ErrKafkaFetchFailed
    /\ Cancel

NextFatalFirst ==
    \/ CancelAfterFatal
    \/ Tick
    \/ RunStart
    \/ RunSelectCancel
    \/ RunSelectErr
    \/ RunReturn
    \/ MainExit
    \/ ConsumerFetchMsg
    \/ ConsumerFetchFail
    \/ ConsumerSend
    \/ ConsumerDone
    \/ ParserRecv
    \/ ParserRecvClosed
    \/ ParserRecvCanceled
    \/ ParserSend
    \/ ParserSendCanceled
    \/ ParserDone
    \/ CalcRecv
    \/ CalcRecvClosed
    \/ CalcTick
    \/ CalcCanceled
    \/ CalcSend
    \/ CalcFlushDone
    \/ CalcReturn
    \/ CalcDone
    \/ AlerterRecv
    \/ AlerterRecvClosed
    \/ AlerterCanceled
    \/ AlerterDone

SpecFatalFirst == Init /\ [][NextFatalFirst]_vars

\* Run called with a context that is already cancelled: the signal arrived
\* before main reached pipe.Run
InitCancelled ==
    /\ InitPipeline
    /\ cancelled = TRUE
    /\ snipIn = NoCall /\ snipOut = <<>>
    /\ featuresToRun = <<[name |-> "a", metricType |-> "numerical",
                          thresholds |-> NoThresholds]>>
    /\ alertFeatures = featuresToRun
    /\ payloadSet = {"{a:1}", "{a:"}
    /\ horizon = WindowSize

NextCancelled ==
    \/ Tick
    \/ RunStart
    \/ RunSelectCancel
    \/ RunSelectErr
    \/ RunReturn
    \/ MainExit
    \/ ConsumerFetchMsg
    \/ ConsumerFetchFail
    \/ ConsumerFetchCanceled
    \/ ConsumerSend
    \/ ConsumerSendCanceled
    \/ ConsumerDone
    \/ ParserRecv
    \/ ParserRecvClosed
    \/ ParserRecvCanceled
    \/ ParserSend
    \/ ParserSendCanceled
    \/ ParserDone
    \/ CalcRecv
    \/ CalcRecvClosed
    \/ CalcTick
    \/ CalcCanceled
    \/ CalcSend
    \/ CalcFlushDone
    \/ CalcReturn
    \/ CalcDone
    \/ AlerterRecv
    \/ AlerterRecvClosed
    \/ AlerterCanceled
    \/ AlerterDone

FairSpecCancelled == InitCancelled /\ [][NextCancelled]_vars /\ Fairness

\* The aggregation engine over several windows, fed by the upstream
InitCalc ==
    /\ InitCommon
    /\ featuresToRun = <<[name |-> "a", metricType |-> "numerical",
                          thresholds |-> NoThresholds]>>
    /\ alertFeatures = featuresToRun
    /\ payloadSet = {"{a:1}"}
    /\ horizon = MaxTime

NextCalc ==
    \/ Cancel
    \/ Tick
    \/ RunStart
    \/ RunSelectCancel
    \/ RunSelectErr
    \/ RunReturn
    \/ UpstreamFeed
    \/ UpstreamFail
    \/ UpstreamCanceled
    \/ CalcRecv
    \/ CalcRecvClosed
    \/ CalcTick
    \/ CalcCanceled
    \/ CalcSend
    \/ CalcFlushDone
    \/ CalcReturn
    \/ CalcDone
    \/ AlerterRecv
    \/ AlerterRecvClosed
    \/ AlerterCanceled
    \/ AlerterDone

SpecCalc == InitCalc /\ [][NextCalc]_vars

\* The calculator goroutine keeps being scheduled: a tick waiting on
\* ticker.C is eventually taken by the select, and a flush under way goes on
\* to its end.  Nothing is assumed of the clock or of the upstream.
FairnessCalc ==
    /\ WF_vars(CalcTick)
    /\ WF_vars(CalcSend \/ CalcFlushDone \/ CalcReturn \/ CalcDone)

FairSpecCalc == SpecCalc /\ FairnessCalc

\* Statistics and evaluation: records of every kind (number, null, absent
\* field, non-numeric value) go through the aggregation of one window and
\* the results through the evaluator, under several threshold settings; the
\* run ends when the Source fails.
ThresholdChoices ==
    { NoThresholds,
      [NullRate |-> Bound(1, 2), MeanMin |-> Bound(2, 1), MeanMax |-> Bound(2, 1),
       StdDevMin |-> Bound(1, 1), StdDevMax |-> Bound(1, 1)],
      [NullRate |-> Bound(0, 1), MeanMin |-> Bound(3, 1), MeanMax |-> Bound(1, 1),
       StdDevMin |-> Bound(2, 1), StdDevMax |-> Bound(0, 1)],
      [NullRate |-> Bound(1, 1), MeanMin |-> Bound(0, 1), MeanMax |-> Bound(3, 1),
       StdDevMin |-> Bound(0, 1), StdDevMax |-> Bound(2, 1)],
      [NullRate |-> Unset, MeanMin |-> Bound(2, 1), MeanMax |-> Unset,
       StdDevMin |-> Unset, StdDevMax |-> Bound(1, 2)] }

InitStats ==
    /\ InitCommon
    /\ \E th \in ThresholdChoices :
          featuresToRun = <<[name |-> "a", metricType |-> "numerical",
                             thresholds |-> th]>>
    /\ alertFeatures = featuresToRun
    /\ payloadSet = {"{a:1}", "{a:3}", "{a:null}", "{a:'x'}", "{}"}
    /\ horizon = WindowSize

NextStats ==
    \/ Tick
    \/ RunStart
    \/ RunSelectErr
    \/ RunReturn
    \/ UpstreamFeed
    \/ UpstreamFail
    \/ CalcRecv
    \/ CalcRecvClosed
    \/ CalcTick
    \/ CalcSend
    \/ CalcFlushDone
    \/ CalcReturn
    \/ CalcDone
    \/ AlerterRecv
    \/ AlerterRecvClosed
    \/ AlerterDone

SpecStats == InitStats /\ [][NextStats]_vars

\* The same with a number at the top of the float64 range among the
\* payloads: its square is above math.MaxFloat64.
InitRange ==
    /\ InitCommon
    /\ \E th \in {NoThresholds,
                   [NullRate |-> Unset, MeanMin |-> Bound(2, 1), MeanMax |-> Unset,
                    StdDevMin |-> Unset, StdDevMax |-> Bound(1, 2)]} :
          featuresToRun = <<[name |-> "a", metricType |-> "numerical",
                             thresholds |-> th]>>
    /\ alertFeatures = featuresToRun
    /\ payloadSet = {"{a:1}", "{a:3}", "{a:1e200}", "{a:null}"}
    /\ horizon = WindowSize

NextRange ==
    \/ Tick
    \/ RunStart
    \/ RunSelectErr
    \/ RunReturn
    \/ UpstreamFeed
    \/ UpstreamFail
    \/ CalcRecv
    \/ CalcRecvClosed
    \/ CalcTick
    \/ CalcSend
    \/ CalcFlushDone
    \/ CalcReturn
    \/ CalcDone
    \/ AlerterRecv
    \/ AlerterRecvClosed
    \/ AlerterDone

SpecRange == InitRange /\ [][NextRange]_vars

\* The same for a feature configured with a metric type the aggregator
\* has no case for ("categorical" is named in the code as not implemented).
InitMetricType ==
    /\ InitCommon
    /\ \E th \in {NoThresholds,
                   [NullRate |-> Bound(1, 2), MeanMin |-> Bound(2, 1), MeanMax |-> Bound(2, 1),
                    StdDevMin |-> Bound(1, 1), StdDevMax |-> Bound(1, 1)]} :
          featuresToRun = <<[name |-> "a", metricType |-> "categorical",
                             thresholds |-> th]>>
    /\ alertFeatures = featuresToRun
    /\ payloadSet = {"{a:1}", "{a:3}", "{a:'x'}", "{a:null}", "{}"}
    /\ horizon = WindowSize

NextMetricType ==
    \/ Tick
    \/ RunStart
    \/ RunSelectErr
    \/ RunReturn
    \/ UpstreamFeed
    \/ UpstreamFail
    \/ CalcRecv
    \/ CalcRecvClosed
    \/ CalcTick
    \/ CalcSend
    \/ CalcFlushDone
    \/ CalcReturn
    \/ CalcDone
    \/ AlerterRecv
    \/ AlerterRecvClosed
    \/ AlerterDone

SpecMetricType == InitMetricType /\ [][NextMetricType]_vars

\* The evaluator as a component of its own: NewAlerter is given a feature
\* list that need not be the aggregator's (a feature renamed or not yet
\* configured on the evaluator's side), so results of features it does not
\* know arrive on its input.  The aggregator runs two features.
EvalThresholds ==
    [NullRate |-> Bound(0, 1), MeanMin |-> Bound(2, 1), MeanMax |-> Bound(2, 1),
     StdDevMin |-> Bound(1, 1), StdDevMax |-> Bound(1, 1)]

InitEval ==
    /\ InitCommon
    /\ featuresToRun = << [name |-> "a", metricType |-> "numerical",
                           thresholds |-> EvalThresholds],
                          [name |-> "b", metricType |-> "numerical",
                           thresholds |-> EvalThresholds] >>
    /\ \E keep \in {<<1>>, <<2>>, <<1, 2>>} :
          alertFeatures = [i \in DOMAIN keep |-> featuresToRun[keep[i]]]
    /\ payloadSet = {"{a:1}", "{b:3}", "{a:1,b:3}", "{a:null}"}
    /\ horizon = WindowSize

NextEval ==
    \/ Tick
    \/ RunStart
    \/ RunSelectErr
    \/ RunReturn
    \/ UpstreamFeed
    \/ UpstreamFail
    \/ CalcRecv
    \/ CalcRecvClosed
    \/ CalcTick
    \/ CalcSend
    \/ CalcFlushDone
    \/ CalcReturn
    \/ CalcDone
    \/ AlerterRecv
    \/ AlerterRecvClosed
    \/ AlerterDone

SpecEval == InitEval /\ [][NextEval]_vars

\* GetFieldSnippet on its own: a record, a field name and a maximum length
\* are chosen, then the function is applied.
Texts == UNION {[1..n -> Chars] : n \in 0..MaxStrLen}

SnippetRecords ==
    {EmptyMsg, [k \in {"a"} |-> NullV], [k \in {"a"} |-> NumV(1)],
     [k \in {"a"} |-> NumV(12345)]}
    \cup {[k \in {"a"} |-> TextV(t)] : t \in Texts}

InitSnippet ==
    /\ InitPipeline
    /\ cancelled = FALSE
    /\ featuresToRun = <<[name |-> "a", metricType |-> "numerical",
                          thresholds |-> NoThresholds]>>
    /\ alertFeatures = featuresToRun
    /\ payloadSet = {}
    /\ horizon = 0
    /\ snipIn \in [called : {FALSE}, dm : SnippetRecords, fieldName : {"a"},
                    maxLength : (-1)..(MaxStrLen + 1)]
    /\ snipOut = <<>>

GetFieldSnippetCall ==
    /\ ~snipIn.called
    /\ snipIn' = [snipIn EXCEPT !.called = TRUE]
    /\ snipOut' = GetFieldSnippet(snipIn.dm, snipIn.fieldName, snipIn.maxLength)
    /\ UNCHANGED << now, cancelled, cfgVars, closes, srcVars, consVars,
                    rawMessages, rawClosed, parsVars, parsedMessages, parsedClosed,
                    calcVars, tickVars, aggResults, aggClosed, alrtVars, pipelineErr, wg,
                    runVars >>

NextSnippet == GetFieldSnippetCall

SpecSnippet == InitSnippet /\ [][NextSnippet]_vars


(* ------------------------- shared vocabulary --------------------------- *)
AllTasksDone == cpc = "done" /\ ppc = "done" /\ kpc = "done" /\ apc = "done"
AllQueuesClosed == rawClosed /\ parsedClosed /\ aggClosed

\* the calculator has left its loop (final flush started or over)
CalcStopped == kpc \in {"closed", "done"} \/ (kpc = "flush" /\ kafter = "ret")
AlerterStopped == apc \in {"ret", "done"}

\* every AggregationResult the flushes have built so far: those already
\* offered to the results queue and those of the running flush
Emitted == [i \in 1..Len(emitLog) |-> emitLog[i].res] \o kpend

RECURSIVE SumCounts(_)
SumCounts(rs) == IF rs = <<>> THEN 0 ELSE Head(rs).Count + SumCounts(Tail(rs))

NumOf(seq, x) == Cardinality({i \in DOMAIN seq : seq[i] = x})
NumSent == Cardinality({i \in DOMAIN emitLog : emitLog[i].sent})

\* records counted in the windows still in the live set, for feature f
RECURSIVE LiveCountOver(_, _)
LiveCountOver(keys, f) ==
    IF keys = {}
    THEN 0
    ELSE LET e == CHOOSE x \in keys : TRUE
         IN  (IF f \in DOMAIN windowStates[e].features
              THEN windowStates[e].features[f].count ELSE 0)
             + LiveCountOver(keys \ {e}, f)
LiveCount(f) == LiveCountOver(DOMAIN windowStates, f)

(* ------------------------------ claims --------------------------------- *)

\* C1: when the aggregator has stopped (input closed or cancellation), no
\* window with a counted record is left in the live set: the final flush
\* emitted every one of them, the in-flight window included.
C1_ShutdownFlushesEveryWindow ==
    kpc \in {"closed", "done"} =>
        \A e \in DOMAIN windowStates :
            \A f \in DOMAIN windowStates[e].features :
                windowStates[e].features[f].count = 0

\* C2: windows flush exactly once: no (feature, window end) is emitted
\* twice, every emitted window ends at or before the largest cutoff used so
\* far, every live window (so every window a record is ingested into after a
\* flush) ends after every cutoff used so far, and the live set holds one
\* WindowState per window end.
C2_FlushExactlyOnce ==
    /\ \A i, j \in DOMAIN Emitted :
          (/\ Emitted[i].FeatureName = Emitted[j].FeatureName
           /\ Emitted[i].WindowEnd = Emitted[j].WindowEnd) => i = j
    /\ \A i \in DOMAIN Emitted : Emitted[i].WindowEnd <= flushedUpTo
    /\ \A e \in DOMAIN windowStates :
          /\ e > flushedUpTo
          /\ windowStates[e].windowEnd = e

\* C2 witness: two windows were emitted by two flushes, the later window
\* after the earlier one's cutoff had passed.
C2_Witness ==
    /\ Len(emitLog) >= 2
    /\ emitLog[1].res.WindowEnd < emitLog[2].res.WindowEnd
    /\ kpc = "run"

\* C3: when Run has returned, all four tasks have finished and the three
\* queues are closed.
C3_RunReturnsAfterAllTasks ==
    rpc = "returned" => AllTasksDone /\ AllQueuesClosed

\* C3 witness: Run has returned after payloads went through the pipeline.
C3_Witness == rpc = "returned" /\ wg = 0 /\ plog # <<>>

\* C4: once the token is cancelled, all four tasks terminate and Run
\* returns, whatever the tasks were suspended on.
C4_CancelTerminates == cancelled ~> (rpc = "returned" /\ AllTasksDone)

\* C4 witness: a cancelled run has returned with the raw and the parsed
\* queue both full (consumer and parser were cut off while sending or with
\* input waiting).
C4_Witness ==
    /\ cancelled /\ rpc = "returned"
    /\ Len(rawMessages) = QueueCap /\ Len(parsedMessages) = QueueCap

\* C5: after a fatal Source error, unless the token is cancelled, the run
\* ends: every stage saw its end-of-stream in turn, every queue is closed
\* and Run has returned; and no finished stage ever runs again.
C5_SourceErrorEndsRun ==
    /\ (cerr = ErrKafkaFetchFailed) ~>
          \/ cancelled
          \/ /\ rpc = "returned" /\ AllTasksDone /\ AllQueuesClosed
             /\ pexit = "eos" /\ kerr = NilErr /\ aerr = NilErr
    /\ [][/\ cpc = "done" => cpc' = "done"
          /\ ppc = "done" => ppc' = "done"
          /\ kpc = "done" => kpc' = "done"
          /\ apc = "done" => apc' = "done"]_vars

\* C5 witness: a run that was never cancelled has returned after a fatal
\* Source error, with payloads processed on the way.
C5_Witness ==
    /\ ~cancelled /\ rpc = "returned" /\ cerr = ErrKafkaFetchFailed
    /\ fetched = MaxFetch

\* C6: when the trigger of the shutdown was cancellation, Run returns the
\* cancellation indicator; it returns nothing only when no trigger fired.
C6_CancelReturnsIndicator ==
    rpc = "returned" =>
        /\ IsCanceled(firstErr) => IsCanceled(retVal)
        /\ retVal = NilErr => firstErr = NilErr

\* C7: when the trigger was an error received on the error channel, Run
\* returns exactly that error, which names its stage; firstErr does not
\* change while Run waits.
C7_FirstErrorReturned ==
    /\ (rpc = "returned" /\ firstErr.stage # "none") =>
          /\ retVal = firstErr
          /\ retVal.stage \in {ErrConsumerRunFailed, ErrCalculatorRunFailed,
                               ErrAlerterRunFailed}
          /\ retVal.cause = "fetchfail"
    /\ (rpc = "returned" /\ cerr = ErrKafkaFetchFailed /\ ~IsCanceled(firstErr)) =>
          retVal = Wrap(ErrConsumerRunFailed, ErrKafkaFetchFailed)

\* C7 witness: Run has returned the consumer's wrapped fetch error.
C7_Witness ==
    rpc = "returned" /\ retVal = Wrap(ErrConsumerRunFailed, ErrKafkaFetchFailed)

\* C8: a stage that stops on end-of-stream has taken everything its queue
\* held; and in a run that was never cancelled every payload the Source
\* returned was parsed, every forwarded record was ingested before the
\* final flush and every result put on the results queue was evaluated.
C8_NothingQueuedIsLost ==
    /\ pexit = "eos" => rawMessages = <<>>
    /\ (CalcStopped /\ kerr = NilErr) => parsedMessages = <<>>
    /\ (AlerterStopped /\ aerr = NilErr) => aggResults = <<>>
    /\ (rpc = "returned" /\ ~cancelled) =>
          /\ Len(plog) = fetched
          /\ SumCounts(Emitted) + LiveCount(featuresToRun[1].name) = NumOf(plog, "fwd")
          /\ Len(evaluated) = NumSent

\* C8 witness: an uncancelled run has returned after the Source failed with
\* all payloads fetched and a result evaluated.
C8_Witness ==
    /\ rpc = "returned" /\ ~cancelled
    /\ fetched = MaxFetch /\ NumOf(plog, "fwd") >= 1 /\ evaluated # <<>>

\* C9: after cancellation every result the aggregator placed on the results
\* queue has been processed by the evaluator when the evaluator has ended
\* (and the aggregator will place no more).
C9_CancelDrainsResults ==
    (cancelled /\ AlerterStopped /\ kpc \in {"closed", "done"}) =>
        /\ aggResults = <<>>
        /\ Len(evaluated) = NumSent

\* C10: the step in which the parser pulls a payload that fails to decode
\* puts nothing on the parsed queue and nothing on the error channel and
\* leaves the parser at its receive, not stopped.
C10_DecodeFailureIsSkipped ==
    [][(/\ ppc = "recv"
        /\ rawMessages # <<>>
        /\ rawMessages' = Tail(rawMessages)
        /\ ~ParseDynamicJSON(Head(rawMessages)).ok)
       => (/\ parsedMessages' = parsedMessages
           /\ pipelineErr' = pipelineErr
           /\ parsedClosed' = parsedClosed
           /\ ppc' = "recv"
           /\ pexit' = "none")]_vars

\* C10 witness: the parser skipped a payload and afterwards forwarded the
\* next one.
C10_Witness ==
    \E i, j \in DOMAIN plog : i < j /\ plog[i] = "skip" /\ plog[j] = "fwd"

\* C11: a result emitted while the results queue holds capacity-many items
\* is dropped: the queue is left as it was, the result is never on the
\* queue nor evaluated; and the aggregator never waits on the results
\* queue: inside a flush it can always take its next step.
C11_FullQueueDropsResult ==
    /\ [][(/\ kpc = "flush" /\ kpend # <<>>
           /\ kpend' = Tail(kpend)
           /\ Len(aggResults) = QueueCap)
          => (/\ aggResults' = aggResults
              /\ emitLog' = Append(emitLog, [res |-> Head(kpend), sent |-> FALSE])
              /\ kpc' = "flush")]_vars
    /\ [](\A i \in DOMAIN emitLog :
            ~emitLog[i].sent =>
                /\ \A j \in DOMAIN evaluated : evaluated[j] # emitLog[i].res
                /\ \A j \in DOMAIN aggResults : aggResults[j] # emitLog[i].res)
    /\ [](kpc = "flush" => ENABLED (CalcSend \/ CalcFlushDone \/ CalcReturn))

\* C11 witness: a result was dropped on a full queue by a timer-driven
\* flush, the evaluator has consumed nothing, and the aggregator is back in
\* its loop.
C11_Witness ==
    /\ \E i \in DOMAIN emitLog : ~emitLog[i].sent
    /\ Len(aggResults) = QueueCap /\ evaluated = <<>>
    /\ kpc = "run"

\* C12: no queue ever holds more than the capacity the three share; and
\* while the token is not cancelled nothing is discarded on the way: every
\* payload the Source returned is in the consumer's hand, on the raw queue,
\* in the parser's hand or was handled by the parser, and every record the
\* parser forwarded is on the parsed queue or was ingested.
C12_RawAndParsedLossless ==
    /\ Len(rawMessages) <= QueueCap
    /\ Len(parsedMessages) <= QueueCap
    /\ Len(aggResults) <= QueueCap
    /\ ~cancelled =>
          /\ fetched = (IF cpc = "send" THEN 1 ELSE 0) + Len(rawMessages)
                        + (IF ppc = "send" THEN 1 ELSE 0) + Len(plog)
          /\ NumOf(plog, "fwd") =
                Len(parsedMessages) + SumCounts(Emitted)
                + LiveCount(featuresToRun[1].name)

\* C12 witness: with the token not cancelled the consumer holds a payload
\* it cannot push because the raw queue is full.
C12_Witness ==
    /\ ~cancelled /\ cpc = "send" /\ fetched = MaxFetch
    /\ Len(rawMessages) = QueueCap

\* the sum of the p-th powers (p = 1 or 2) of the numbers that the first n
\* ingested records carried for feature f in the window ending at e, and
\* how many of those records there were
RECURSIVE PowerSum(_, _, _, _)
PowerSum(n, e, f, p) ==
    IF n = 0
    THEN 0
    ELSE (LET r == ingested[n]
          IN  IF r.windowEnd = e /\ f \in DOMAIN r.msg /\ r.msg[f].t = "num"
              THEN (IF p = 2 THEN r.msg[f].v * r.msg[f].v ELSE r.msg[f].v)
              ELSE 0)
         + PowerSum(n - 1, e, f, p)
NumIngested(e) == Cardinality({i \in DOMAIN ingested : ingested[i].windowEnd = e})
NumConvertible(e, f) ==
    Cardinality({i \in DOMAIN ingested :
                    /\ ingested[i].windowEnd = e
                    /\ f \in DOMAIN ingested[i].msg
                    /\ ingested[i].msg[f].t = "num"})

\* C13: every FeatureStats of the live set has 0 <= nullCount <= count (count
\* being the records ingested into its window), and its sum and sumSq are
\* the sum and the sum of squares of exactly the numbers ingested for it:
\* null, absent and non-numeric values never change them.
C13_StatsInvariant ==
    \A e \in DOMAIN windowStates :
        \A f \in DOMAIN windowStates[e].features :
            LET st == windowStates[e].features[f]
            IN  /\ 0 <= st.nullCount /\ st.nullCount <= st.count
                /\ st.count = NumIngested(e)
                /\ st.sum = PowerSum(Len(ingested), e, f, 1)
                /\ st.sumSq = PowerSum(Len(ingested), e, f, 2)

\* C13 witness: a window took the number 3 and a present non-numeric value:
\* two records counted, none null, sum 3 and sum of squares 9.
C13_Witness ==
    \E e \in DOMAIN windowStates :
        /\ "a" \in DOMAIN windowStates[e].features
        /\ windowStates[e].features["a"] =
              [count |-> 2, nullCount |-> 0, sum |-> 3, sumSq |-> 9]
        /\ NumConvertible(e, "a") = 1

\* C14: every emitted result whose window took at least one number carries
\* the arithmetic mean of the numbers ingested for the feature in that
\* window and their population variance (exact arithmetic: S1/n and
\* (n*S2 - S1^2)/n^2 for n numbers with sum S1 and sum of squares S2).
C14_MeanAndVarianceOfConvertible ==
    \A i \in DOMAIN Emitted :
        LET r == Emitted[i]
            n == NumConvertible(r.WindowEnd, r.FeatureName)
            S1 == PowerSum(Len(ingested), r.WindowEnd, r.FeatureName, 1)
            S2 == PowerSum(Len(ingested), r.WindowEnd, r.FeatureName, 2)
        IN  n >= 1 =>
              /\ ~r.Mean.nan /\ ~r.Variance.nan
              /\ r.Mean.num * n = S1 * r.Mean.den
              /\ r.Variance.num * n * n = (n * S2 - S1 * S1) * r.Variance.den

\* every record ingested into the window ending at e had feature f null or
\* absent (and there was at least one)
AllNullOrAbsent(e, f) ==
    /\ NumIngested(e) >= 1
    /\ \A j \in DOMAIN ingested :
          ingested[j].windowEnd = e =>
              (f \notin DOMAIN ingested[j].msg \/ ingested[j].msg[f].t = "null")

\* the entries the evaluator logged for one result
LogOf(r) ==
    {j \in DOMAIN alertLog :
        alertLog[j].feature = r.FeatureName /\ alertLog[j].windowEnd = r.WindowEnd}

\* C15: a feature-window whose values were all null or absent is emitted
\* with the not-computable sentinel as mean and as variance; the evaluator
\* reports no mean and no standard-deviation violation for it, whatever
\* the bounds, logs its summary without mean and stddev, and does not fail.
C15_AllNullWindowIsNotComputable ==
    /\ \A i \in DOMAIN Emitted :
          AllNullOrAbsent(Emitted[i].WindowEnd, Emitted[i].FeatureName) =>
              /\ Emitted[i].Count = Emitted[i].NullCount
              /\ Emitted[i].Mean.nan /\ Emitted[i].Variance.nan
    /\ \A i \in DOMAIN evaluated :
          AllNullOrAbsent(evaluated[i].WindowEnd, evaluated[i].FeatureName) =>
              /\ \A j \in LogOf(evaluated[i]) :
                    alertLog[j].kind = "violation" =>
                        alertLog[j].check_type \notin {"mean", "stddev"}
              /\ \E j \in LogOf(evaluated[i]) :
                    /\ alertLog[j].kind = "stats"
                    /\ alertLog[j].fields \cap {"mean", "stddev"} = {}
              /\ aerr = NilErr
              /\ \A k \in DOMAIN pipelineErr : pipelineErr[k].stage # ErrAlerterRunFailed
              /\ firstErr.stage # ErrAlerterRunFailed

\* C15 witness: with mean and stddev bounds configured, the evaluator has
\* processed a window of a null and an absent value and has ended normally.
C15_Witness ==
    /\ featuresToRun[1].thresholds.MeanMin.set
    /\ featuresToRun[1].thresholds.StdDevMax.set
    /\ \E i \in DOMAIN evaluated :
          /\ AllNullOrAbsent(evaluated[i].WindowEnd, evaluated[i].FeatureName)
          /\ evaluated[i].Count >= 2
          /\ \E j, k \in DOMAIN ingested :
                /\ ingested[j].windowEnd = evaluated[i].WindowEnd
                /\ ingested[k].windowEnd = evaluated[i].WindowEnd
                /\ "a" \in DOMAIN ingested[j].msg
                /\ "a" \notin DOMAIN ingested[k].msg
    /\ apc = "done"

\* the violations of one kind the evaluator logged for one result, and the
\* value of the violation counter for a key (0 when never incremented)
NumViolations(r, checkType, comparison) ==
    Cardinality({j \in LogOf(r) :
                    /\ alertLog[j].kind = "violation"
                    /\ alertLog[j].check_type = checkType
                    /\ alertLog[j].comparison = comparison})
CounterOf(featureName, checkType, comparison) ==
    IF << featureName, checkType, comparison >> \in DOMAIN violationCounter
    THEN violationCounter[<< featureName, checkType, comparison >>]
    ELSE 0
ThresholdsOf(featureName) ==
    featuresToRun[LastOf(FeatureIndex(featuresToRun, featureName))].thresholds

\* C16: for every evaluated result (count > 0) the null rate shown is
\* nullCount/count, and exactly one null-rate violation is reported when a
\* bound is configured and nullCount/count is strictly above it, none
\* otherwise; the violation counter counts exactly those.
C16_NullRateViolation ==
    /\ \A i \in DOMAIN evaluated :
          LET r == evaluated[i]
              th == ThresholdsOf(r.FeatureName).NullRate
              above == th.set /\ r.NullCount * th.den > th.num * r.Count
          IN  /\ r.Count > 0
              /\ NumViolations(r, "null_rate", ">") = (IF above THEN 1 ELSE 0)
              /\ NumViolations(r, "null_rate", "<") = 0
              /\ \E j \in LogOf(r) :
                    alertLog[j].kind = "stats" /\ "null_rate" \in alertLog[j].fields
    /\ evaluated # <<>> =>
          LET r == evaluated[Len(evaluated)]
              g == gauges[r.FeatureName].nullRate
          IN  g.num * r.Count = r.NullCount * g.den
    /\ CounterOf("a", "null_rate", ">") =
          Cardinality({i \in DOMAIN evaluated :
              LET th == ThresholdsOf(evaluated[i].FeatureName).NullRate
              IN  th.set /\ evaluated[i].NullCount * th.den > th.num * evaluated[i].Count})

\* C16 witness: with the bound 1/2 configured a result of null rate 1 was
\* evaluated and reported once.
C16_Witness ==
    /\ featuresToRun[1].thresholds.NullRate = Bound(1, 2)
    /\ \E i \in DOMAIN evaluated :
          /\ evaluated[i].NullCount = evaluated[i].Count
          /\ NumViolations(evaluated[i], "null_rate", ">") = 1
    /\ CounterOf("a", "null_rate", ">") = 1

\* the four conditions of C17 on a result r, stated on the result itself:
\* the bound is configured, the metric is computable, and it lies strictly
\* beyond the bound (for the standard deviation s = sqrt(variance):
\* s < b iff b > 0 and variance < b^2, s > b iff b < 0 or variance > b^2)
MeanBelow(r) ==
    LET b == ThresholdsOf(r.FeatureName).MeanMin
    IN  b.set /\ ~r.Mean.nan /\ r.Mean.num * b.den < b.num * r.Mean.den
MeanAbove(r) ==
    LET b == ThresholdsOf(r.FeatureName).MeanMax
    IN  b.set /\ ~r.Mean.nan /\ r.Mean.num * b.den > b.num * r.Mean.den
StdDevBelow(r) ==
    LET b == ThresholdsOf(r.FeatureName).StdDevMin
    IN  /\ b.set /\ ~r.Variance.nan /\ b.num > 0
        /\ r.Variance.num * b.den * b.den < b.num * b.num * r.Variance.den
StdDevAbove(r) ==
    LET b == ThresholdsOf(r.FeatureName).StdDevMax
    IN  /\ b.set /\ ~r.Variance.nan
        /\ \/ b.num < 0
           \/ r.Variance.num * b.den * b.den > b.num * b.num * r.Variance.den
NumWhere(S) == Cardinality(S)

\* C17: for every evaluated result and each of the four bounds, one
\* violation of that kind is logged if the bound is configured, the metric
\* computable and strictly beyond the bound, and none otherwise; the
\* violation counter of (feature, kind, direction) counts exactly those.
C17_MeanAndStdDevViolations ==
    /\ \A i \in DOMAIN evaluated :
          LET r == evaluated[i]
          IN  /\ NumViolations(r, "mean", "<") = (IF MeanBelow(r) THEN 1 ELSE 0)
              /\ NumViolations(r, "mean", ">") = (IF MeanAbove(r) THEN 1 ELSE 0)
              /\ NumViolations(r, "stddev", "<") = (IF StdDevBelow(r) THEN 1 ELSE 0)
              /\ NumViolations(r, "stddev", ">") = (IF StdDevAbove(r) THEN 1 ELSE 0)
    /\ CounterOf("a", "mean", "<")
          = NumWhere({i \in DOMAIN evaluated : MeanBelow(evaluated[i])})
    /\ CounterOf("a", "mean", ">")
          = NumWhere({i \in DOMAIN evaluated : MeanAbove(evaluated[i])})
    /\ CounterOf("a", "stddev", "<")
          = NumWhere({i \in DOMAIN evaluated : StdDevBelow(evaluated[i])})
    /\ CounterOf("a", "stddev", ">")
          = NumWhere({i \in DOMAIN evaluated : StdDevAbove(evaluated[i])})

\* C17 witness: one result (mean 2, variance 1, no nulls) was reported
\* below meanMin and above meanMax, below stdDevMin and above stdDevMax,
\* with no null-rate violation.
C17_Witness ==
    \E i \in DOMAIN evaluated :
        /\ evaluated[i].Mean = Quot(4, 2) /\ evaluated[i].NullCount = 0
        /\ NumViolations(evaluated[i], "mean", "<") = 1
        /\ NumViolations(evaluated[i], "mean", ">") = 1
        /\ NumViolations(evaluated[i], "stddev", "<") = 1
        /\ NumViolations(evaluated[i], "stddev", ">") = 1
        /\ NumViolations(evaluated[i], "null_rate", ">") = 0
        /\ CounterOf("a", "mean", "<") = 1 /\ CounterOf("a", "stddev", ">") = 1

\* C18: for every result the evaluator processed (its feature is
\* configured) exactly one summary was logged, whatever the number of
\* violations, carrying the count and exactly those of null rate, mean and
\* stddev that were computable; there are as many summaries as results.
C18_OneSummaryPerResult ==
    /\ \A i \in DOMAIN evaluated :
          LET r == evaluated[i]
              summaries == {j \in LogOf(r) : alertLog[j].kind = "stats"}
          IN  /\ FeatureIndex(featuresToRun, r.FeatureName) # {}
              /\ Cardinality(summaries) = 1
              /\ \A j \in summaries :
                    /\ alertLog[j].count = r.Count
                    /\ ("null_rate" \in alertLog[j].fields) = (r.Count > 0)
                    /\ ("mean" \in alertLog[j].fields) = ~r.Mean.nan
                    /\ ("stddev" \in alertLog[j].fields) = ~r.Variance.nan
                    /\ \A k \in LogOf(r) : k <= j
    /\ Cardinality({j \in DOMAIN alertLog : alertLog[j].kind = "stats"})
          = Len(evaluated)

\* C18 witness: a result without computable mean was processed: one
\* null-rate violation and one summary that carries the null rate only.
C18_Witness ==
    \E i \in DOMAIN evaluated :
        /\ evaluated[i].Mean.nan
        /\ NumViolations(evaluated[i], "null_rate", ">") = 1
        /\ \E j \in LogOf(evaluated[i]) :
              alertLog[j].kind = "stats" /\ alertLog[j].fields = {"null_rate"}

\* C19: within one feature the results the aggregator emits over a run
\* have non-decreasing window ends.
C19_EmittedInWindowOrder ==
    \A i, j \in DOMAIN Emitted :
        (i < j /\ Emitted[i].FeatureName = Emitted[j].FeatureName)
            => Emitted[i].WindowEnd <= Emitted[j].WindowEnd

\* C20: while the pipeline runs, the timer-driven flush taking a tick of
\* firing instant T removes from the live set every window with end <= T
\* (and no other) and builds one result for each of its features with
\* count > 0; no (feature, window end) is ever produced twice; and a live
\* window whose end is at or before a tick waiting on the ticker channel
\* does not stay in the live set: it is flushed unless the aggregator
\* stops first.
C20_TimerFlushTakesCompletedWindows ==
    /\ [][(kpc = "run" /\ kpc' = "flush" /\ kafter' = "loop")
          => (/\ tickC # <<>>
              /\ DOMAIN windowStates' = {e \in DOMAIN windowStates : e > Head(tickC)}
              /\ \A e \in DOMAIN windowStates' : windowStates'[e] = windowStates[e]
              /\ \A e \in DOMAIN windowStates :
                    e <= Head(tickC) =>
                        \A f \in DOMAIN windowStates[e].features :
                            Cardinality({k \in DOMAIN kpend' :
                                /\ kpend'[k].WindowEnd = e
                                /\ kpend'[k].FeatureName = f
                                /\ kpend'[k].Count = windowStates[e].features[f].count})
                            = (IF windowStates[e].features[f].count > 0 THEN 1 ELSE 0))]_vars
    /\ [](\A i, j \in DOMAIN Emitted :
            (Emitted[i].WindowEnd = Emitted[j].WindowEnd
             /\ Emitted[i].FeatureName = Emitted[j].FeatureName /\ i # j) => FALSE)
    /\ \A e \in 1..(MaxTime + WindowSize) :
          (e \in DOMAIN windowStates /\ tickC # <<>> /\ Head(tickC) >= e)
              ~> (e \notin DOMAIN windowStates \/ CalcStopped)

\* C20 witness: in a run that is still going (no cancellation, the Source
\* still read) a timer-driven flush has emitted a window and the
\* aggregator is ingesting into a later one.
C20_Witness ==
    /\ ~cancelled /\ cpc = "fetch" /\ kpc = "run" /\ kafter = "loop"
    /\ Len(emitLog) = 1 /\ emitLog[1].res.WindowEnd <= flushedUpTo
    /\ \E e \in DOMAIN windowStates : e > flushedUpTo

\* the steps of the aggregator the lock is taken in, and the push
IngestStep == kpc = "run" /\ Len(ingested') = Len(ingested) + 1
FlushPartitionStep == kpc = "run" /\ kpc' = "flush"
PushStep == kpc = "flush" /\ kpend # <<>> /\ kpend' = Tail(kpend)

\* C21: the aggregator's lock is never held between two operations of the
\* aggregator (each operation releases it before it returns), so no result
\* is pushed or dropped while it is held; during an ingest nothing but map
\* lookups and inserts runs under the lock, and during a flush nothing but
\* the partition of the map (no log write, no counter update, no result).
C21_LockHeldOnlyForMapSteps ==
    /\ [](~mu)
    /\ [][IngestStep =>
            UnderLock(processMessageOps(windowStates, Head(parsedMessages),
                                        featuresToRun, WindowEndOf(now)), mu)
                \subseteq {"lookup", "insert"}]_vars
    /\ [][FlushPartitionStep =>
            \E cutoffTime \in {now} \cup {tickC[i] : i \in DOMAIN tickC} :
                /\ windowStates' = RemoveCompleted(windowStates, cutoffTime)
                /\ UnderLock(collectAndRemoveCompletedWindowsOps(windowStates, cutoffTime), mu)
                      \subseteq {"range", "insert", "delete"}]_vars
    /\ [][PushStep => ~mu /\ ~mu']_vars

\* the same with the log write of a new window allowed under the lock
LockHeldOnlyForMapStepsAndLog ==
    /\ [](~mu)
    /\ [][IngestStep =>
            UnderLock(processMessageOps(windowStates, Head(parsedMessages),
                                        featuresToRun, WindowEndOf(now)), mu)
                \subseteq {"lookup", "insert", "log"}]_vars
    /\ [][FlushPartitionStep =>
            \E cutoffTime \in {now} \cup {tickC[i] : i \in DOMAIN tickC} :
                /\ windowStates' = RemoveCompleted(windowStates, cutoffTime)
                /\ UnderLock(collectAndRemoveCompletedWindowsOps(windowStates, cutoffTime), mu)
                      \subseteq {"range", "insert", "delete"}]_vars
    /\ [][PushStep => ~mu /\ ~mu']_vars

\* the source-reader task has left Consumer.Run
ConsumerExited == cpc \in {"closed", "done"}

\* C22: the Source is closed in the very step in which the source-reader
\* leaves Consumer.Run, whatever made it leave (a read that returned the
\* cancellation error, cancellation during the push onto the raw queue, a
\* fatal Source error), and at no other step: it is closed once when the
\* task has exited and not at all before; and once it is closed no read is
\* issued: the task is never again at its read or its push and the number of
\* payloads read does not change.
C22_SourceClosedOnceAtExit ==
    /\ [](readerClosed = (IF ConsumerExited THEN 1 ELSE 0))
    /\ [][(~ConsumerExited /\ ConsumerExited')
          => (/\ readerClosed = 0 /\ readerClosed' = 1
              /\ cerr' \in {CtxCanceled, ErrKafkaFetchFailed})]_vars
    /\ [][readerClosed >= 1
          => (/\ readerClosed' = readerClosed
              /\ fetched' = fetched
              /\ cpc' \notin {"fetch", "send"})]_vars

\* C22 witness: the source-reader was cancelled while it held a payload it
\* could not push (the raw queue full, the parser still at its receive with
\* nothing in its hand), the Source is closed and the task has finished.
C22_Witness ==
    /\ readerClosed = 1 /\ cpc = "done" /\ cerr = CtxCanceled
    /\ Len(rawMessages) = QueueCap /\ ppc = "recv"
    /\ fetched > Len(rawMessages) + Len(plog)

\* C22, the other exit causes: the Source is closed after a fatal Source
\* error and after a read that returned the cancellation error
C22_WitnessOtherCauses ==
    readerClosed = 1 /\ cerr = ErrKafkaFetchFailed /\ rpc = "returned"

ClosedOnce == [raw |-> 1, parsed |-> 1, agg |-> 1]

C24_CancellationIsNoFatalError ==
    /\ [][(\/ ~ConsumerExited /\ ConsumerExited' /\ IsCanceled(cerr')
           \/ kpc = "flush" /\ kpc' = "closed" /\ IsCanceled(kerr)
           \/ apc = "ret" /\ apc' = "done" /\ IsCanceled(aerr))
          => pipelineErr' = pipelineErr]_vars
    /\ [](/\ \A i \in DOMAIN pipelineErr :
                ~IsCanceled(pipelineErr[i]) /\ pipelineErr[i].stage # "none"
          /\ firstErr.stage # "none" => ~IsCanceled(firstErr)
          /\ ~IsCanceled(retVal))
    /\ [](cerr # ErrKafkaFetchFailed =>
            /\ pipelineErr = <<>>
            /\ firstErr.stage = "none"
            /\ retVal.stage = "none"
            /\ rpc = "returned" => retVal = NilErr)

\* C24 witness: source-reader, aggregator and evaluator all stopped on
\* cancellation, Run has returned and the error channel is empty.
C24_Witness ==
    /\ cerr = CtxCanceled /\ kerr = CtxCanceled /\ aerr = CtxCanceled
    /\ AllTasksDone /\ rpc = "returned" /\ retVal = NilErr
    /\ pipelineErr = <<>>

Exited == exitStatus # NotExited

\* C25: the process exits only after Run has returned; its status is 0
\* when Run returned nothing, which is the case after every run whose
\* trigger was cancellation, and 1 in every other case, and then the final
\* error-level log line carries the error Run returned, which names its
\* stage.
C25_ExitStatusFollowsRunResult ==
    Exited =>
        /\ rpc = "returned"
        /\ exitStatus.code \in {0, 1}
        /\ (retVal = NilErr \/ IsCanceled(retVal)) =>
              /\ exitStatus.code = 0
              /\ exitStatus.level = "info" /\ exitStatus.err = NilErr
        /\ IsCanceled(firstErr) => exitStatus.code = 0
        /\ ~(retVal = NilErr \/ IsCanceled(retVal)) =>
              /\ exitStatus.code = 1
              /\ exitStatus.level = "error"
              /\ exitStatus.err = retVal
              /\ retVal.stage \in {ErrConsumerRunFailed, ErrCalculatorRunFailed,
                                   ErrAlerterRunFailed}
              /\ retVal = firstErr

\* C25 witness: the process has exited with status 1 after Run returned the
\* source-reader's wrapped fatal error.
C25_Witness ==
    /\ Exited /\ exitStatus.code = 1
    /\ exitStatus.err = Wrap(ErrConsumerRunFailed, ErrKafkaFetchFailed)

\* C25, the other case: the process has exited with status 0 after a run
\* that cancellation ended
C25_WitnessCancelled ==
    Exited /\ exitStatus.code = 0 /\ cancelled /\ firstErr = CtxCanceled

\* the evaluator has a configuration for the feature of result r
Configured(r) == \E i \in DOMAIN alertFeatures : alertFeatures[i].name = r.FeatureName

\* C26: the step in which the evaluator takes a result of a feature it has
\* no configuration for logs one warning and nothing else: no violation, no
\* summary, no counter and no gauge changes, nothing goes on the error
\* channel and the evaluator stays in its loop; no violation, summary,
\* counter or gauge ever exists for such a feature; and every result of a
\* configured feature the evaluator took, before or after, has its summary.
C26_UnconfiguredFeatureIsSkipped ==
    /\ [][(apc = "run" /\ aggResults # <<>> /\ aggResults' = Tail(aggResults)
           /\ ~Configured(Head(aggResults)))
          => (/\ alertLog' = Append(alertLog,
                                    [kind |-> "unconfigured",
                                     feature |-> Head(aggResults).FeatureName,
                                     windowEnd |-> Head(aggResults).WindowEnd])
              /\ violationCounter' = violationCounter
              /\ gauges' = gauges
              /\ pipelineErr' = pipelineErr
              /\ apc' = "run" /\ aerr' = aerr)]_vars
    /\ [](\A i \in DOMAIN evaluated :
            IF Configured(evaluated[i])
            THEN /\ \E j \in LogOf(evaluated[i]) : alertLog[j].kind = "stats"
                 /\ evaluated[i].FeatureName \in DOMAIN gauges
            ELSE /\ \A j \in LogOf(evaluated[i]) : alertLog[j].kind = "unconfigured"
                 /\ evaluated[i].FeatureName \notin DOMAIN gauges
                 /\ \A k \in DOMAIN violationCounter : k[1] # evaluated[i].FeatureName)
    /\ [](aerr = NilErr /\ \A k \in DOMAIN pipelineErr :
                              pipelineErr[k].stage # ErrAlerterRunFailed)

\* C26 witness: the evaluator skipped a result of an unconfigured feature
\* and then evaluated the next result, reporting a violation for it.
C26_Witness ==
    /\ Len(evaluated) >= 2
    /\ ~Configured(evaluated[1]) /\ Configured(evaluated[2])
    /\ \E j \in LogOf(evaluated[2]) : alertLog[j].kind = "violation"
    /\ alertLog[1].kind = "unconfigured"

\* the stages that report on the error channel, the errors a stage has
\* reported so far (on the channel or taken by Run as its trigger), and the
\* stages that have not yet passed the point where they report
FallibleStages == {ErrConsumerRunFailed, ErrCalculatorRunFailed, ErrAlerterRunFailed}
NumReported(stage) ==
    Cardinality({i \in DOMAIN pipelineErr : pipelineErr[i].stage = stage})
    + (IF firstErr.stage = stage THEN 1 ELSE 0)
NumYetToReport ==
    (IF cpc \in {"idle", "fetch", "send"} THEN 1 ELSE 0)
    + (IF kpc \in {"idle", "run", "flush"} THEN 1 ELSE 0)
    + (IF apc \in {"idle", "run", "ret"} THEN 1 ELSE 0)

\* C27: every error on the error channel names one of the three fallible
\* stages, and each stage has reported at most one; the capacity of the
\* channel is at least the number of fallible stages and there is always
\* room for every stage that may still report; so a stage whose Run is
\* about to return is never held up by the error channel, whether or not
\* Run is still receiving.
C27_ErrorChannelNeverBlocks ==
    /\ [](/\ \A i \in DOMAIN pipelineErr : pipelineErr[i].stage \in FallibleStages
          /\ \A stage \in FallibleStages : NumReported(stage) <= 1
          /\ NumReported(ErrConsumerRunFailed) = (IF cerr = ErrKafkaFetchFailed THEN 1 ELSE 0))
    /\ [](/\ ErrChanCap >= Cardinality(FallibleStages)
          /\ Len(pipelineErr) + NumYetToReport <= ErrChanCap)
    /\ [](/\ cpc = "fetch" => ENABLED ConsumerFetchFail
          /\ (kpc = "flush" /\ kpend = <<>> /\ kafter = "ret") => ENABLED CalcReturn
          /\ apc = "ret" => ENABLED AlerterDone)

\* C27 witness: Run took cancellation as its trigger and stopped
\* receiving; afterwards the source-reader failed and its error went onto
\* the error channel, where it stays; all tasks finished and Run returned.
C27_Witness ==
    /\ firstErr = CtxCanceled /\ rpc = "returned" /\ AllTasksDone
    /\ pipelineErr = << Wrap(ErrConsumerRunFailed, ErrKafkaFetchFailed) >>

\* the results the aggregator pushed onto the results queue, in push order
RECURSIVE SentOf(_)
SentOf(log) ==
    IF log = <<>>
    THEN <<>>
    ELSE (IF Head(log).sent THEN << Head(log).res >> ELSE <<>>) \o SentOf(Tail(log))

SnippetOfChars(rendered, maxLength) ==
    IF maxLength <= 0
    THEN Ellipsis
    ELSE IF Len(rendered) <= maxLength
         THEN Bytes(rendered)
         ELSE Bytes(SubSeq(rendered, 1, maxLength)) \o Ellipsis

\* the characters fmt renders a value as
RenderedChars(value) ==
    IF value.t = "str" THEN value.v ELSE Sprintf(value)

\* C29: after a call of snippet the result is the missing-field sentinel
\* when the key is absent; for a present field it is the ellipsis alone when
\* maxLength <= 0, the rendered value unchanged when its length in
\* characters is at most maxLength, and its first maxLength characters
\* followed by the ellipsis when it is longer; and the result is never
\* longer than maxLength plus the length of the ellipsis.
C29_SnippetTruncatesAtMaxLength ==
    snipIn.called =>
        IF snipIn.fieldName \notin DOMAIN snipIn.dm
        THEN snipOut = Missing
        ELSE /\ snipOut = SnippetOfChars(RenderedChars(snipIn.dm[snipIn.fieldName]),
                                         snipIn.maxLength)
             /\ Len(snipOut) <= (IF snipIn.maxLength > 0 THEN snipIn.maxLength ELSE 0)
                                + Len(Ellipsis)

\* the same with every length counted in bytes of the rendered value
SnippetTruncatesAtMaxBytes ==
    snipIn.called =>
        IF snipIn.fieldName \notin DOMAIN snipIn.dm
        THEN snipOut = Missing
        ELSE LET strValue == Sprintf(snipIn.dm[snipIn.fieldName])
             IN  /\ snipIn.maxLength <= 0 => snipOut = Ellipsis
                 /\ (snipIn.maxLength > 0 /\ Len(strValue) <= snipIn.maxLength)
                       => snipOut = strValue
                 /\ (snipIn.maxLength > 0 /\ Len(strValue) > snipIn.maxLength)
                       => snipOut = SubSeq(strValue, 1, snipIn.maxLength) \o Ellipsis
                 /\ Len(snipOut) <= (IF snipIn.maxLength > 0 THEN snipIn.maxLength ELSE 0)
                                    + Len(Ellipsis)

\* the windows of the live map that a step creates or changes
TouchedWindows ==
    {e \in DOMAIN windowStates' :
        e \notin DOMAIN windowStates \/ windowStates'[e] # windowStates[e]}

\* the count of a feature in a window of the live map ws, 0 when absent
CountIn(ws, e, f) ==
    IF e \in DOMAIN ws /\ f \in DOMAIN ws[e].features THEN ws[e].features[f].count ELSE 0

\* C30: an ingest step at clock reading now touches exactly one window of
\* the live map, the one whose end is truncate(now, W) + W; its start is at
\* most now, its end is after now and they are W apart; every configured
\* feature gets its count raised by one in that window, and no window
\* leaves the map.  Always, every key of the live map is a multiple of W, is
\* the windowEnd of its WindowState, and is W after its windowStart.
C30_RecordGoesToOneAlignedWindow ==
    /\ [][IngestStep =>
            \E e \in DOMAIN windowStates' :
                /\ TouchedWindows = {e}
                /\ e = (now - (now % WindowSize)) + WindowSize
                /\ windowStates'[e].windowStart <= now /\ now < windowStates'[e].windowEnd
                /\ windowStates'[e].windowEnd - windowStates'[e].windowStart = WindowSize
                /\ DOMAIN windowStates \subseteq DOMAIN windowStates'
                /\ \A i \in 1..Len(featuresToRun) :
                      CountIn(windowStates', e, featuresToRun[i].name)
                        = CountIn(windowStates, e, featuresToRun[i].name) + 1]_vars
    /\ [](\A k \in DOMAIN windowStates :
              /\ k % WindowSize = 0
              /\ windowStates[k].windowEnd = k
              /\ windowStates[k].windowStart = k - WindowSize)

\* C30 witness: a record carrying both features was ingested into the
\* second window while the first window was still in the live map, and
\* both features were counted there.
C30_Witness ==
    /\ Len(featuresToRun) = 2
    /\ ingested # <<>>
    /\ ingested[Len(ingested)].msg = ParseDynamicJSON("{a:1,b:3}").msg
    /\ DOMAIN windowStates = {WindowSize, 2 * WindowSize}
    /\ CountIn(windowStates, 2 * WindowSize, "a") = 1
    /\ CountIn(windowStates, 2 * WindowSize, "b") = 1

\* the cutoff of the flush a step starts: the firing instant of the tick
\* for a timer-driven flush, the clock reading for a final flush
CutoffOfStep == IF kafter' = "loop" THEN Head(tickC) ELSE now

NumOps(ops, op) == Cardinality({i \in DOMAIN ops : ops[i] = op})

\* C31: the step that starts a flush with cutoff T takes out of the live
\* set exactly the windows with end <= T and leaves every other window as
\* it was; it does so between one Lock and one Unlock, with one delete per
\* removed window, and the lock is free afterwards; the results it builds
\* are of removed windows only; when no window has end <= T the live set is
\* unchanged and the flush builds and emits nothing.
C31_FlushPartitionsLiveSet ==
    [][FlushPartitionStep =>
        LET T == CutoffOfStep
            ops == collectAndRemoveCompletedWindowsOps(windowStates, T)
            removed == {e \in DOMAIN windowStates : e <= T}
        IN  /\ DOMAIN windowStates' = {e \in DOMAIN windowStates : e > T}
            /\ \A e \in DOMAIN windowStates' : windowStates'[e] = windowStates[e]
            /\ Head(ops) = "Lock" /\ ops[Len(ops)] = "Unlock"
            /\ NumOps(ops, "Lock") = 1 /\ NumOps(ops, "Unlock") = 1
            /\ NumOps(ops, "delete") = Cardinality(removed)
            /\ ~mu /\ ~mu'
            /\ \A k \in DOMAIN kpend' : kpend'[k].WindowEnd \in removed
            /\ emitLog' = emitLog /\ aggResults' = aggResults
            /\ removed = {} =>
                  /\ windowStates' = windowStates
                  /\ kpend' = <<>>]_vars

\* C31 witness: a flush took a window out of the live set and built its
\* result while a later window, with a counted record, stayed.
C31_Witness ==
    /\ kpc = "flush" /\ kpend # <<>> /\ emitLog = <<>>
    /\ \E e \in DOMAIN windowStates :
          /\ e > flushedUpTo
          /\ e > kpend[1].WindowEnd
          /\ CountIn(windowStates, e, "a") >= 1

\* C31, the empty case: a flush found the only live window not yet
\* complete, built nothing and left it.
C31_WitnessNothingComplete ==
    /\ kpc = "flush" /\ kpend = <<>> /\ emitLog = <<>>
    /\ Len(ingested) >= 1
    /\ \E e \in DOMAIN windowStates : CountIn(windowStates, e, "a") = Len(ingested)

\* the FeatureStats of feature f in window e of the live map ws, the zero
\* value when there is none yet
StatsIn(ws, e, f) ==
    IF e \in DOMAIN ws /\ f \in DOMAIN ws[e].features THEN ws[e].features[f] ELSE ZeroStats

\* the record carries a value for f that is there, is not null and is not
\* a number
Unconvertible(msg, f) == f \in DOMAIN msg /\ msg[f].t \notin {"null", "num"}

\* C32: when a record whose value for a numerical feature is present,
\* non-null and not a number is ingested, the feature's count in the
\* current window goes up by one and its nullCount, sum and sumSq stay as
\* they were; the ingest writes a log line after the update (outside the
\* lock), puts nothing on the error channel and leaves the aggregator in
\* its loop, ready for the next record.
C32_UnconvertibleValueOnlyCounted ==
    [][IngestStep =>
        \A i \in 1..Len(featuresToRun) :
            LET cfg == featuresToRun[i]
                msg == Head(parsedMessages)
                e == (now - (now % WindowSize)) + WindowSize
                old == StatsIn(windowStates, e, cfg.name)
                new == StatsIn(windowStates', e, cfg.name)
                ops == updateFeatureStatsOps(windowStates, msg, cfg, e)
            IN  (cfg.metricType = "numerical" /\ Unconvertible(msg, cfg.name)) =>
                  /\ new.count = old.count + 1
                  /\ new.nullCount = old.nullCount
                  /\ new.sum = old.sum
                  /\ new.sumSq = old.sumSq
                  /\ ops[Len(ops)] = "log" /\ ops[Len(ops) - 1] = "update"
                  /\ ~LockHeldAfter(SubSeq(ops, 1, Len(ops) - 1), FALSE)
                  /\ pipelineErr' = pipelineErr /\ kerr' = kerr
                  /\ kpc' = "run"]_vars

\* C32 witness: a record with a non-numeric value was ingested, then a
\* record with the number 3 into the same window: two counted, none null,
\* sum 3, and no error reported.
C32_Witness ==
    /\ Len(ingested) = 2
    /\ Unconvertible(ingested[1].msg, "a")
    /\ ingested[2].msg = ParseDynamicJSON("{a:3}").msg
    /\ ingested[1].windowEnd = ingested[2].windowEnd
    /\ StatsIn(windowStates, ingested[1].windowEnd, "a")
          = [count |-> 2, nullCount |-> 0, sum |-> 3, sumSq |-> 9]
    /\ pipelineErr = <<>>

\* the record has no value for f: the key is absent or holds an explicit
\* null
NoValue(msg, f) == f \notin DOMAIN msg \/ msg[f].t = "null"

\* C33: an ingest step of a record in which a configured feature is absent
\* and one in which it is an explicit null do the same: count + 1,
\* nullCount + 1, sum and sumSq unchanged; a present value that is not a
\* number leaves nullCount unchanged.  For every ingested record and
\* feature, HasNonNull holds exactly when the key is present with a value
\* other than null, and GetFloat64 is not ok whenever HasNonNull is false.
C33_AbsentAndNullAreNoValue ==
    /\ [][IngestStep =>
            \A i \in 1..Len(featuresToRun) :
                LET f == featuresToRun[i].name
                    msg == Head(parsedMessages)
                    e == (now - (now % WindowSize)) + WindowSize
                    old == StatsIn(windowStates, e, f)
                    new == StatsIn(windowStates', e, f)
                IN  /\ NoValue(msg, f) =>
                          new = [count |-> old.count + 1, nullCount |-> old.nullCount + 1,
                                 sum |-> old.sum, sumSq |-> old.sumSq]
                    /\ Unconvertible(msg, f) =>
                          new.count = old.count + 1 /\ new.nullCount = old.nullCount]_vars
    /\ [](\A n \in DOMAIN ingested : \A f \in {"a", "b"} :
              LET msg == ingested[n].msg
              IN  /\ HasNonNull(msg, f) <=> (f \in DOMAIN msg /\ msg[f] # NullV)
                  /\ ~HasNonNull(msg, f) => ~GetFloat64(msg, f).ok)

\* C33 witness: a record without the field and a record with an explicit
\* null went into one window: two counted, two null, sums 0.
C33_Witness ==
    /\ Len(ingested) = 2
    /\ "a" \notin DOMAIN ingested[1].msg
    /\ ingested[2].msg = ParseDynamicJSON("{a:null}").msg
    /\ ingested[1].windowEnd = ingested[2].windowEnd
    /\ StatsIn(windowStates, ingested[1].windowEnd, "a")
          = [count |-> 2, nullCount |-> 2, sum |-> 0, sumSq |-> 0]

C35_VarianceComputableWithMean ==
    /\ \A i \in DOMAIN Emitted :
          /\ Emitted[i].Variance.nan \/ Emitted[i].Variance.num >= 0
          /\ Emitted[i].Variance.nan <=> Emitted[i].Mean.nan
    /\ \A j \in DOMAIN alertLog :
          alertLog[j].kind = "stats" =>
              ("stddev" \in alertLog[j].fields <=> "mean" \in alertLog[j].fields)

\* the part of C35 that does not depend on the range of the values: no
\* variance is negative, a result without a mean has no variance, and the
\* evaluator never has a standard deviation without a mean
VarianceNeverNegative ==
    /\ \A i \in DOMAIN Emitted :
          /\ Emitted[i].Variance.nan \/ Emitted[i].Variance.num >= 0
          /\ Emitted[i].Mean.nan => Emitted[i].Variance.nan
    /\ \A j \in DOMAIN alertLog :
          alertLog[j].kind = "stats" =>
              ("stddev" \in alertLog[j].fields => "mean" \in alertLog[j].fields)

\* the states of a run: Starting (Run entered, nothing launched), Running
\* (the select of Run), Draining (wg.Wait), Stopped (Run has returned)
RunState ==
    CASE rpc = "new" -> 1
      [] rpc = "select" -> 2
      [] rpc = "wait" -> 3
      [] rpc = "returned" -> 4

TaskStarted == cpc # "idle" /\ ppc # "idle" /\ kpc # "idle" /\ apc # "idle"

\* C36: the run state only ever moves to the next state of Starting,
\* Running, Draining, Stopped; the step into Running launches all four
\* tasks at once and none is launched by any other step; the step into
\* Draining takes the cancellation (token fired) or the first error of the
\* error channel as the trigger; from Draining on no task that has
\* finished runs again and the WaitGroup counter never grows; and the step
\* into Stopped is taken with all four tasks finished.
C36_RunStatesInOrder ==
    /\ [][rpc' # rpc => RunState' = RunState + 1]_vars
    /\ [][(\/ (cpc = "idle" /\ cpc' # "idle") \/ (ppc = "idle" /\ ppc' # "idle")
           \/ (kpc = "idle" /\ kpc' # "idle") \/ (apc = "idle" /\ apc' # "idle"))
            => (RunState = 1 /\ RunState' = 2 /\ TaskStarted' /\ wg' = NumTasks)]_vars
    /\ [](RunState >= 2 => TaskStarted)
    /\ [][(RunState = 2 /\ RunState' = 3)
            => (\/ (cancelled /\ firstErr' = CtxCanceled)
                \/ (pipelineErr # <<>> /\ firstErr' = Head(pipelineErr)))]_vars
    /\ [][RunState >= 3
            => (/\ wg' <= wg
                /\ cpc = "done" => cpc' = "done"
                /\ ppc = "done" => ppc' = "done"
                /\ kpc = "done" => kpc' = "done"
                /\ apc = "done" => apc' = "done")]_vars
    /\ [][(RunState = 3 /\ RunState' = 4) => (AllTasksDone /\ wg = 0)]_vars

\* C36 witness: a run that went into Draining on an error of the Source,
\* with no cancellation, has reached Stopped.
C36_Witness ==
    /\ rpc = "returned" /\ ~cancelled
    /\ firstErr.stage = ErrConsumerRunFailed
    /\ AllTasksDone

\* C36, the other trigger: a run that went into Draining on cancellation
\* has reached Stopped.
C36_WitnessCancelled ==
    /\ rpc = "returned" /\ cancelled /\ firstErr = CtxCanceled /\ AllTasksDone

\* a flush is under way: the partition is done, results are being built
\* and pushed
FlushRunning == kpc = "flush"

\* C37: a record is ingested only while no flush is under way, and the
\* ingest is over (all features updated) before anything else happens in
\* the aggregator; while a flush is under way the live set and the
\* accumulators do not change, and the results still to be pushed are those
\* built from the windows as they were removed; the count of every result
\* built is, then and ever after, the number of records ingested into its
\* window: a removed WindowState takes no further record.
C37_IngestAndFlushNeverOverlap ==
    /\ [][IngestStep => (~FlushRunning /\ ~FlushRunning' /\ kpend = <<>>)]_vars
    /\ [][windowStates' # windowStates => ~FlushRunning]_vars
    /\ [][FlushRunning =>
            /\ windowStates' = windowStates
            /\ ingested' = ingested
            /\ (kpend' = kpend \/ kpend' = Tail(kpend))]_vars
    /\ [](\A i \in DOMAIN Emitted :
              /\ Emitted[i].Count = NumIngested(Emitted[i].WindowEnd)
              /\ Emitted[i].WindowEnd \notin DOMAIN windowStates)

\* C37 witness: a timer-driven flush is under way with a result still to
\* push while a record waits on the aggregator's input.
C37_Witness ==
    /\ FlushRunning /\ kafter = "loop" /\ kpend # <<>>
    /\ parsedMessages # <<>>

\* C37, afterwards: the flush is over, its result was offered, and a record
\* was ingested into a later window.
C37_WitnessIngestAfterFlush ==
    /\ kpc = "run" /\ emitLog # <<>>
    /\ \E n \in DOMAIN ingested : ingested[n].windowEnd > emitLog[1].res.WindowEnd

\* a step that pushes onto a queue
PushesRaw == Len(rawMessages') > Len(rawMessages)
PushesParsed == Len(parsedMessages') > Len(parsedMessages)
PushesResults == Len(aggResults') > Len(aggResults)

\* C38: a step that pushes onto a queue is taken with that queue open; a
\* queue is closed by a step of its producer task (source-reader, decoder,
\* aggregator) with which that task leaves its code, so after the
\* producer's last push; the results queue is closed by the step that ends
\* the aggregator's final flush, with no built result left to push; a
\* closed queue stays closed and is never closed again; and when the run
\* is over each queue was closed once.
C38_QueuesClosedOnceAfterLastPush ==
    /\ [][(PushesRaw => ~rawClosed) /\ (PushesParsed => ~parsedClosed)
          /\ (PushesResults => ~aggClosed)]_vars
    /\ [][closes'.raw # closes.raw =>
            (~rawClosed /\ rawClosed' /\ cpc \in {"fetch", "send"} /\ cpc' = "closed")]_vars
    /\ [][closes'.parsed # closes.parsed =>
            (~parsedClosed /\ parsedClosed' /\ ppc \in {"recv", "send"} /\ ppc' = "closed")]_vars
    /\ [][closes'.agg # closes.agg =>
            (/\ ~aggClosed /\ aggClosed'
             /\ kpc = "flush" /\ kafter = "ret" /\ kpend = <<>> /\ kpc' = "closed")]_vars
    /\ [](/\ rawClosed <=> closes.raw = 1
          /\ parsedClosed <=> closes.parsed = 1
          /\ aggClosed <=> closes.agg = 1
          /\ closes.raw <= 1 /\ closes.parsed <= 1 /\ closes.agg <= 1)
    /\ [](/\ rawClosed => cpc \in {"closed", "done"}
          /\ parsedClosed => ppc \in {"closed", "done"}
          /\ aggClosed => kpc \in {"closed", "done"})
    /\ [](rpc = "returned" => closes = ClosedOnce)

\* C38 witness: all three queues are closed, each once, after every task
\* had pushed: a record went through and its result was pushed by the
\* final flush.
C38_Witness ==
    /\ closes = ClosedOnce
    /\ Len(plog) >= 1 /\ plog[1] = "fwd"
    /\ Len(ingested) >= 1
    /\ NumSent >= 1

\* C39: in a run whose cancellation token fired only after the
\* source-reader had put its fatal error on the error channel, what Run
\* returns is that error, wrapped with the consumer's stage.
C39_EarlierFatalErrorIsReturned ==
    (rpc = "returned" /\ cancelled)
        => retVal = Wrap(ErrConsumerRunFailed, ErrKafkaFetchFailed)

\* the same for the runs in which the token never fires, and for those in
\* which Run had taken the error from the channel before it fired
FatalErrorReturnedUnlessCancelledFirst ==
    /\ (rpc = "returned" /\ cerr = ErrKafkaFetchFailed /\ ~cancelled)
          => retVal = Wrap(ErrConsumerRunFailed, ErrKafkaFetchFailed)
    /\ (rpc = "returned" /\ firstErr = Wrap(ErrConsumerRunFailed, ErrKafkaFetchFailed))
          => retVal = firstErr

\* the configured metric type of a feature name
MetricTypeOf(f) ==
    LET i == CHOOSE k \in 1..Len(featuresToRun) : featuresToRun[k].name = f
    IN  featuresToRun[i].metricType

\* C40: for a feature whose metric type is not "numerical", an ingest step
\* raises count by one, raises nullCount by one exactly when the record
\* has no value for it, and leaves sum and sumSq at 0; it reports no error
\* and leaves the aggregator in its loop.  Every result built for such a
\* feature from a window with at least one non-null value has mean 0 and
\* variance 0, not the sentinel; one with no non-null value has the
\* sentinel.
C40_UnknownMetricTypeOnlyCounts ==
    /\ [][IngestStep =>
            \A i \in 1..Len(featuresToRun) :
                LET cfg == featuresToRun[i]
                    msg == Head(parsedMessages)
                    e == (now - (now % WindowSize)) + WindowSize
                    old == StatsIn(windowStates, e, cfg.name)
                    new == StatsIn(windowStates', e, cfg.name)
                IN  cfg.metricType # "numerical" =>
                      /\ new.count = old.count + 1
                      /\ new.nullCount
                            = old.nullCount + (IF NoValue(msg, cfg.name) THEN 1 ELSE 0)
                      /\ new.sum = 0 /\ new.sumSq = 0
                      /\ pipelineErr' = pipelineErr /\ kerr' = kerr /\ kpc' = "run"]_vars
    /\ [](\A k \in DOMAIN Emitted :
              LET r == Emitted[k]
              IN  MetricTypeOf(r.FeatureName) # "numerical" =>
                    IF r.Count > r.NullCount
                    THEN /\ ~r.Mean.nan /\ r.Mean.num = 0 /\ r.Mean.den > 0
                         /\ ~r.Variance.nan /\ r.Variance.num = 0 /\ r.Variance.den > 0
                    ELSE r.Mean.nan /\ r.Variance.nan)
    /\ [](kerr = NilErr /\ \A k \in DOMAIN pipelineErr :
                              pipelineErr[k].stage # ErrCalculatorRunFailed)

\* C40 witness: a window that took two non-null values, the number 3 among
\* the records, for a feature of unrecognised type was emitted with count
\* 2, no nulls, mean 0 and variance 0, the aggregator having no error.
C40_Witness ==
    /\ featuresToRun[1].metricType = "categorical"
    /\ \E k \in DOMAIN Emitted :
          /\ Emitted[k].Count = 2 /\ Emitted[k].NullCount = 0
          /\ Emitted[k].Mean = Quot(0, 2)
          /\ ~Emitted[k].Variance.nan /\ Emitted[k].Variance.num = 0
    /\ \E n \in DOMAIN ingested : ingested[n].msg = ParseDynamicJSON("{a:3}").msg
    /\ kerr = NilErr

====
